---- MODULE Spec2Model ----
(***************************************************************************)
(* Knowledge-base ingestion and retrieval of LocalTopSH: the text chunker, *)
(* the document id, the batched embedding client and the ingestion CLI      *)
(* against the vector store.                                                *)
(*                                                                          *)
(* Text is a sequence of one-character strings; positions in the           *)
(* operators named after JavaScript methods are 0-based, as in the source. *)
(***************************************************************************)
EXTENDS Integers, Sequences, FiniteSets, TLC

VARIABLES
    \* splitIntoChunks / parseAndChunkDocument, one call; windows is the
    \* history of the loop: start and end of every iteration so far
    text, chunkSize, overlap, cleanText, start, chunks, iter, docChunks, ckPc,
    windows,
    \* createEmbeddings, one call: the texts, the loop index i, the result so
    \* far, the position, and the requests sent to the embedding endpoint
    embTexts, embI, allEmbeddings, embPc, embCalls,
    \* the vector store: the collection (its configuration, or NoCollection)
    \* and its points
    collection, points,
    \* what the ingest root is, and the files below it in the order a scan
    \* lists them
    fsRoot, fsFiles,
    \* main() of the ingestion CLI, one run after the other: position, number
    \* of the run, the locals of main and of indexChunks, and how it exited
    pc, runNo, shouldReset, documentPaths, docIdx, allChunks, stats,
    indexPoints, upsertI, exitCode, exitReason,
    \* history: documents whose parse threw in this run, the upsert requests of
    \* this run, whether "Indexing complete" was logged, and the runs ended
    failedDocs, upsertLog, indexingComplete, runLog,
    \* the calls of the retrieval and registry functions.  Of the call that
    \* returned or threw last: the function called, its arguments, how it
    \* ended, what it returned, the requests it sent to the store and to the
    \* embedding endpoint, the call that had ended last when it was made (its
    \* function, its arguments, how it ended, the documentIds stored before
    \* it), the documentIds stored when it was made, and the chunks
    \* executeGetInstruction got.  The number of calls made so far.  And the
    \* calls that await the answer to a request, each with its locals: no call
    \* waits for another, so the requests of two calls reach the store in any
    \* order
    qOp, qArgs, qOutcome, qResult, qCalls, qCount, qPrev, qBefore, qChunks, qPending,
    \* the store of the FileCRMProvider, the time new Date() gives, the call
    \* of a ticket tool that returned last with the ticket as the provider
    \* found and left it, the ids of the tickets that have been resolved or
    \* closed, and the calls of the ticket tools that await the provider: a
    \* tool awaits each call of the provider, and the calls started together
    \* take their turns at the store in any order
    crmStore, clock, tCall, everClosed, tPending

chunkerVars == <<text, chunkSize, overlap, cleanText, start, chunks, iter, docChunks, ckPc,
                 windows>>
embedVars == <<embTexts, embI, allEmbeddings, embPc, embCalls>>

storeVars == <<collection, points>>
runVars == <<pc, runNo, shouldReset, documentPaths, docIdx, allChunks, stats,
             indexPoints, upsertI, exitCode, exitReason>>
historyVars == <<failedDocs, upsertLog, indexingComplete, runLog>>
queryVars == <<qOp, qArgs, qOutcome, qResult, qCalls, qCount, qPrev, qBefore, qChunks,
               qPending>>
crmVars == <<crmStore, clock, tCall, everClosed, tPending>>
ingestVars == <<storeVars, fsRoot, fsFiles, runVars, historyVars, queryVars, crmVars>>

vars == <<chunkerVars, embedVars, ingestVars>>

\* ------------------------------------------------------------------ bounds

\* longest input text given to splitIntoChunks
MaxTextLen == 5
\* largest chunkSize given to splitIntoChunks
MaxChunkSize == 5
\* largest overlap given to splitIntoChunks
MaxOverlap == 2
\* iterations of the chunking loop followed before the model stops following it
MaxIter == 6
\* most texts given to createEmbeddings on its own
MaxTexts == 201
\* most files below the ingest root
MaxFiles == 2
\* ingestion runs followed
MaxRuns == 2
\* CONFIG.knowledge.chunkSize and chunkOverlap of the ingestion runs, scaled
\* down with the file contents
ConfigChunkSize == 4
ConfigChunkOverlap == 1
\* length of the text of guide.md, which makes more chunks than one batch
GuideLength == 302

\* ------------------------------------------------------------ characters

LF == "\n"
CR == "\r"

\* the characters input texts are made of
Alphabet == {"a", " ", ".", LF, CR}

\* white space for String.prototype.trim
IsSpace(c) == c \in {" ", LF, CR, "\t"}

Min(a, b) == IF a < b THEN a ELSE b
Max(a, b) == IF a > b THEN a ELSE b

\* all sequences over S of length at most n
SeqsUpTo(S, n) == UNION {[1..k -> S] : k \in 0..n}

\* -------------------------------------------------- JavaScript string methods

\* s.slice(from, to): negative positions count from the end, both are clamped
Slice(s, from, to) ==
    LET n == Len(s)
        f == IF from < 0 THEN Max(n + from, 0) ELSE Min(from, n)
        t == IF to < 0 THEN Max(n + to, 0) ELSE Min(to, n)
    IN  IF f >= t THEN <<>> ELSE SubSeq(s, f + 1, t)

\* s.trim()
Trim(s) ==
    LET keep == {i \in 1..Len(s) : ~IsSpace(s[i])}
    IN  IF keep = {} THEN <<>>
        ELSE LET lo == CHOOSE i \in keep : \A j \in keep : i <= j
                 hi == CHOOSE i \in keep : \A j \in keep : i >= j
             IN  SubSeq(s, lo, hi)

\* s is found in t at the 0-based position k
MatchAt(t, s, k) ==
    /\ k >= 0
    /\ k + Len(s) <= Len(t)
    /\ \A j \in 1..Len(s) : t[k + j] = s[j]

\* t.lastIndexOf(s, position): the last match starting at or before position
\* (a negative position is taken as 0), -1 when there is none
LastIndexOf(t, s, position) ==
    LET p == Min(Max(position, 0), Len(t) - Len(s))
        hits == {k \in 0..p : MatchAt(t, s, k)}
    IN  IF hits = {} THEN -1
        ELSE CHOOSE k \in hits : \A m \in hits : m <= k

\* the characters of t at the positions in keep, in order
KeepAt(t, keep) ==
    LET kept == SelectSeq([i \in 1..Len(t) |-> i], LAMBDA i : i \in keep)
    IN  [r \in 1..Len(kept) |-> t[kept[r]]]

\* t.replace(/\r\n/g, '\n'): every carriage return that a line feed follows
\* is dropped
ReplaceCRLF(t) ==
    KeepAt(t, {i \in 1..Len(t) : ~(t[i] = CR /\ i < Len(t) /\ t[i + 1] = LF)})

\* t.replace(/\n{3,}/g, '\n\n'): of every maximal run of three or more line
\* feeds the first two are kept
CollapseNewlines(t) ==
    KeepAt(t, {i \in 1..Len(t) :
                ~(i >= 3 /\ t[i] = LF /\ t[i - 1] = LF /\ t[i - 2] = LF)})

\* ------------------------------------------------------------- splitIntoChunks

\* a clean-up that only trims
CleanText_TrimOnly(t) == Trim(t)

\* the clean-up at the head of splitIntoChunks
CleanText(t) == Trim(CollapseNewlines(ReplaceCRLF(t)))

\* the window end chosen for the window starting at st: the raw end, or a
\* paragraph break or sentence end past the middle of the window.
\* x > st + size / 2 is compared as 2 * x > 2 * st + size
WindowEnd(clean, size, st) ==
    LET rawEnd == st + size
        paragraphEnd == LastIndexOf(clean, <<LF, LF>>, rawEnd)
        sentenceEnd == LastIndexOf(clean, <<".", " ">>, rawEnd)
    IN  IF rawEnd < Len(clean)
        THEN IF 2 * paragraphEnd > 2 * st + size THEN paragraphEnd
             ELSE IF 2 * sentenceEnd > 2 * st + size THEN sentenceEnd + 1
             ELSE rawEnd
        ELSE rawEnd

\* chunks after the push of one iteration: the trimmed slice, unless empty
PushChunk(acc, clean, st, end) ==
    LET chunk == Trim(Slice(clean, st, end))
    IN  IF chunk # <<>> THEN Append(acc, chunk) ELSE acc

\* an iteration that moves start to the window end, without the overlap
LoopBody_NoOverlap(clean, size, ov, st, acc) ==
    LET end == WindowEnd(clean, size, st)
    IN  [chunks |-> PushChunk(acc, clean, st, end),
         start |-> end,
         again |-> ~(end >= Len(clean) - ov) /\ end < Len(clean)]

\* one iteration of the while loop, entered with start = st < length:
\* the new chunks, the new start, and whether the loop goes on
LoopBody(clean, size, ov, st, acc) ==
    LET end == WindowEnd(clean, size, st)
        next == end - ov
    IN  [chunks |-> PushChunk(acc, clean, st, end),
         start |-> next,
         again |-> ~(next >= Len(clean) - ov) /\ next < Len(clean)]

\* the loop after one more iteration, when it goes on
LoopStep(clean, size, ov, s) ==
    IF s.again THEN LoopBody(clean, size, ov, s.start, s.chunks) ELSE s

\* the loop after at most n more iterations: the first half of them, then
\* the rest
RECURSIVE LoopSteps(_, _, _, _, _)
LoopSteps(clean, size, ov, s, n) ==
    IF n = 0 THEN s
    ELSE IF n = 1 THEN LoopStep(clean, size, ov, s)
    ELSE CHOOSE r \in {LoopSteps(clean, size, ov, half, n - n \div 2) :
                          half \in {LoopSteps(clean, size, ov, s, n \div 2)}} : TRUE

\* the while loop, followed for at most fuel iterations
ChunkLoop(clean, size, ov, st, acc, fuel) ==
    LoopSteps(clean, size, ov, [chunks |-> acc, start |-> st, again |-> TRUE], fuel).chunks

\* splitIntoChunks(text, chunkSize, overlap) for parameters with which the
\* loop advances by at least one character per iteration
splitIntoChunks(t, size, ov) ==
    LET clean == CleanText(t)
    IN  IF Len(clean) <= size THEN <<clean>>
        ELSE ChunkLoop(clean, size, ov, 0, <<>>, Len(clean) + 1)

\* ------------------------------------------------------ bytes and base64url

UpperCase == <<"A", "B", "C", "D", "E", "F", "G", "H", "I", "J", "K", "L", "M",
               "N", "O", "P", "Q", "R", "S", "T", "U", "V", "W", "X", "Y", "Z">>
LowerCase == <<"a", "b", "c", "d", "e", "f", "g", "h", "i", "j", "k", "l", "m",
               "n", "o", "p", "q", "r", "s", "t", "u", "v", "w", "x", "y", "z">>
Digits == <<"0", "1", "2", "3", "4", "5", "6", "7", "8", "9">>
SlashChar == "/"
Backslash == "\\"
Dot == "."

InTuple(t, c) == \E i \in 1..Len(t) : t[i] = c

\* 1-based position of the first c in the tuple t
PosIn(t, c) == CHOOSE i \in 1..Len(t) : t[i] = c /\ \A j \in 1..(i - 1) : t[j] # c

\* the ASCII code of a character of a path
ByteOf(c) ==
    CASE InTuple(UpperCase, c) -> 64 + PosIn(UpperCase, c)
      [] InTuple(LowerCase, c) -> 96 + PosIn(LowerCase, c)
      [] InTuple(Digits, c) -> 47 + PosIn(Digits, c)
      [] c = " " -> 32
      [] c = "-" -> 45
      [] c = Dot -> 46
      [] c = SlashChar -> 47
      [] c = Backslash -> 92
      [] c = "_" -> 95

\* Buffer.from(s): the bytes of an ASCII string
Bytes(s) == [i \in 1..Len(s) |-> ByteOf(s[i])]

Base64UrlAlphabet ==
    <<"A", "B", "C", "D", "E", "F", "G", "H", "I", "J", "K", "L", "M", "N", "O", "P",
      "Q", "R", "S", "T", "U", "V", "W", "X", "Y", "Z", "a", "b", "c", "d", "e", "f",
      "g", "h", "i", "j", "k", "l", "m", "n", "o", "p", "q", "r", "s", "t", "u", "v",
      "w", "x", "y", "z", "0", "1", "2", "3", "4", "5", "6", "7", "8", "9", "-", "_">>

Sextet(v) == Base64UrlAlphabet[v + 1]

\* buffer.toString('base64url'): four characters per three bytes, two or
\* three characters for a rest of one or two bytes, no padding
RECURSIVE Base64Url(_)
Base64Url(b) ==
    IF Len(b) = 0 THEN <<>>
    ELSE IF Len(b) = 1
         THEN <<Sextet(b[1] \div 4), Sextet((b[1] % 4) * 16)>>
    ELSE IF Len(b) = 2
         THEN <<Sextet(b[1] \div 4),
                Sextet((b[1] % 4) * 16 + b[2] \div 16),
                Sextet((b[2] % 16) * 4)>>
    ELSE <<Sextet(b[1] \div 4),
           Sextet((b[1] % 4) * 16 + b[2] \div 16),
           Sextet((b[2] % 16) * 4 + b[3] \div 64),
           Sextet(b[3] % 64)>> \o Base64Url(SubSeq(b, 4, Len(b)))

\* ------------------------------------------------------------ path (POSIX)

\* s.split(sep) for a one-character separator
RECURSIVE Split(_, _)
Split(s, sep) ==
    LET cut == {i \in 1..Len(s) : s[i] = sep}
    IN  IF cut = {} THEN <<s>>
        ELSE LET i == CHOOSE k \in cut : \A m \in cut : k <= m
             IN  <<SubSeq(s, 1, i - 1)>> \o Split(SubSeq(s, i + 1, Len(s)), sep)

\* path.basename(p)
Basename(p) ==
    LET parts == Split(p, SlashChar) IN parts[Len(parts)]

\* path.extname(p): from the last dot of the base name, unless there is none
\* or it is the first character
Extname(p) ==
    LET b == Basename(p)
        k == LastIndexOf(b, <<Dot>>, Len(b))
    IN  IF k <= 0 THEN <<>> ELSE Slice(b, k, Len(b))

\* path.basename(p, ext)
BasenameExt(p, ext) ==
    LET b == Basename(p)
        n == Len(b) - Len(ext)
    IN  IF ext # <<>> /\ n > 0 /\ Slice(b, n, Len(b)) = ext
        THEN Slice(b, 0, n) ELSE b

\* path.join(dir, name)
PathJoin(dir, name) == dir \o <<SlashChar>> \o name

\* path.relative(base, p) for a path p below base
PathRelative(base, p) == Slice(p, Len(base) + 1, Len(p))

\* s.toLowerCase()
ToLowerCase(s) ==
    [i \in 1..Len(s) |->
        IF InTuple(UpperCase, s[i]) THEN LowerCase[PosIn(UpperCase, s[i])] ELSE s[i]]

\* s.replace(/[^a-z0-9]/g, '-')
DashNonAlnum(s) ==
    [i \in 1..Len(s) |->
        IF InTuple(LowerCase, s[i]) \/ InTuple(Digits, s[i]) THEN s[i] ELSE "-"]

\* s.replace(/\\/g, '/')
SlashBackslashes(s) ==
    [i \in 1..Len(s) |-> IF s[i] = Backslash THEN SlashChar ELSE s[i]]

\* String(n) for n >= 0
RECURSIVE DecimalString(_)
DecimalString(n) ==
    IF n < 10 THEN <<Digits[n + 1]>>
    ELSE DecimalString(n \div 10) \o <<Digits[(n % 10) + 1]>>

\* ------------------------------------------------------ parseAndChunkDocument

HashLength == 12
NameLength == 30
TitleLimit == 100
TitleCut == 97

\* generateDocumentId(filePath)
generateDocumentId(filePath) ==
    LET normalized == SlashBackslashes(filePath)
        hash == Slice(Base64Url(Bytes(normalized)), 0, HashLength)
        name == Slice(DashNonAlnum(ToLowerCase(
                    BasenameExt(filePath, Extname(filePath)))), 0, NameLength)
    IN  name \o <<"-">> \o hash

\* extractCategory(filePath, basePath); NoValue stands for undefined
NoValue == <<"undefined">>
extractCategory(filePath, basePath) ==
    LET parts == Split(PathRelative(basePath, filePath), SlashChar)
    IN  IF Len(parts) > 1 THEN parts[1] ELSE NoValue

\* extractTitle(content, fileName)
extractTitle(content, fileName) ==
    LET all == Split(content, LF)
        lines == SelectSeq(all, LAMBDA l : Trim(l) # <<>>)
    IN  IF Len(lines) > 0
        THEN LET firstLine == Trim(lines[1])
             IN  IF Len(firstLine) <= TitleLimit THEN firstLine
                 ELSE Slice(firstLine, 0, TitleCut) \o <<".", ".", ".">>
        ELSE fileName

\* parseAndChunkDocument numbering the chunks from 1
DocumentChunks_OneBased(filePath, basePath, content, textChunks) ==
    LET documentId == generateDocumentId(filePath)
        documentName == Basename(filePath)
    IN  [index \in 1..Len(textChunks) |->
            [id |-> documentId \o <<"-", "c", "h", "u", "n", "k", "-">>
                        \o DecimalString(index),
             content |-> textChunks[index],
             metadata |-> [documentId |-> documentId,
                           documentName |-> documentName,
                           documentPath |-> filePath,
                           chunkIndex |-> index,
                           totalChunks |-> Len(textChunks),
                           category |-> extractCategory(filePath, basePath),
                           title |-> extractTitle(content, documentName)]]]

\* the chunk records parseAndChunkDocument builds from the text chunks
DocumentChunks(filePath, basePath, content, textChunks) ==
    LET documentId == generateDocumentId(filePath)
        documentName == Basename(filePath)
        category == extractCategory(filePath, basePath)
        title == extractTitle(content, documentName)
    IN  [index \in 1..Len(textChunks) |->
            [id |-> documentId \o <<"-", "c", "h", "u", "n", "k", "-">>
                        \o DecimalString(index - 1),
             content |-> textChunks[index],
             metadata |-> [documentId |-> documentId,
                           documentName |-> documentName,
                           documentPath |-> filePath,
                           chunkIndex |-> index - 1,
                           totalChunks |-> Len(textChunks),
                           category |-> category,
                           title |-> title]]]

\* parseAndChunkDocument(filePath, basePath) on a file whose parsed text is
\* content, with the configured chunk size and overlap
parseAndChunkDocument(filePath, basePath, content, size, ov) ==
    DocumentChunks(filePath, basePath, content, splitIntoChunks(content, size, ov))

\* ------------------------------------------------------------------ files

\* the ingest root, path.resolve('./knowledge_docs') below the WORKDIR /app
Root_docs == <<"/", "a", "p", "p", "/", "k", "n", "o", "w", "l", "e", "d", "g", "e", "_", "d", "o", "c", "s">>
Dir_faq == <<"f", "a", "q">>
Dir_policy == <<"p", "o", "l", "i", "c", "y">>
Dir_eu == <<"e", "u">>
Dir_git == <<".", "g", "i", "t">>
File_returns_txt == <<"r", "e", "t", "u", "r", "n", "s", ".", "t", "x", "t">>
File_returns_md == <<"r", "e", "t", "u", "r", "n", "s", ".", "m", "d">>
File_guide_md == <<"g", "u", "i", "d", "e", ".", "m", "d">>
File_vat_pdf == <<"v", "a", "t", ".", "p", "d", "f">>
File_notes_csv == <<"n", "o", "t", "e", "s", ".", "c", "s", "v">>
File_readme_md == <<"r", "e", "a", "d", "m", "e", ".", "m", "d">>

\* the files that may lie below the root, in the order a scan lists them when
\* readdirSync lists every directory by name.  A file is named by its path
\* relative to the root.
Listing == <<".git/readme.md", "faq/eu/vat.pdf", "faq/returns.txt", "guide.md",
             "notes.csv", "policy/returns.md">>

\* the directory names and the file name of a file
SegmentsOf(f) ==
    CASE f = ".git/readme.md" -> <<Dir_git, File_readme_md>>
      [] f = "faq/eu/vat.pdf" -> <<Dir_faq, Dir_eu, File_vat_pdf>>
      [] f = "faq/returns.txt" -> <<Dir_faq, File_returns_txt>>
      [] f = "guide.md" -> <<File_guide_md>>
      [] f = "notes.csv" -> <<File_notes_csv>>
      [] f = "policy/returns.md" -> <<Dir_policy, File_returns_md>>

\* the full path scanDir builds for a file with path.join
RECURSIVE JoinAll(_, _)
JoinAll(dir, segs) ==
    IF segs = <<>> THEN dir ELSE JoinAll(PathJoin(dir, Head(segs)), Tail(segs))
PathOf(f) == JoinAll(Root_docs, SegmentsOf(f))

\* the text of guide.md: the letters a..e over and over
GuideText == [i \in 1..GuideLength |-> LowerCase[((i - 1) % 5) + 1]]

\* the text parseDocument extracts from a file
ContentOf(f) ==
    CASE f = ".git/readme.md" -> <<"g", "i", "t">>
      [] f = "faq/eu/vat.pdf" -> <<"v", "a", "t">>
      [] f = "faq/returns.txt" -> <<"a", "b", ".", " ", "c", "d">>
      [] f = "guide.md" -> GuideText
      [] f = "notes.csv" -> <<"n", ",", "m">>
      [] f = "policy/returns.md" -> <<"o", "k">>

\* -------------------------------------------------------------- findDocuments

SupportedExtensions ==
    {<<".", "d", "o", "c", "x">>, <<".", "d", "o", "c">>, <<".", "p", "d", "f">>,
     <<".", "t", "x", "t">>, <<".", "m", "d">>}

\* name.startsWith('.')
StartsWithDot(name) == Len(name) > 0 /\ name[1] = Dot

\* scanDir reaches a file unless one of its directories is hidden, and keeps
\* it when its extension is supported
ScanKeeps(f) ==
    LET segs == SegmentsOf(f)
        name == segs[Len(segs)]
    IN  /\ \A i \in 1..(Len(segs) - 1) : ~StartsWithDot(segs[i])
        /\ ToLowerCase(Extname(name)) \in SupportedExtensions

\* findDocuments(dirPath) on an existing root with the files listed
findDocuments(listed) == SelectSeq(listed, ScanKeeps)

\* the ingest root: a directory that can be listed, nothing at all, a file,
\* or a directory the process may not read
RootKinds == {"directory", "missing", "file", "unreadable"}

\* fs.existsSync(dirPath)
existsSync(root) == root # "missing"

\* fs.readdirSync(dirPath) in scanDir throws on a root that is no directory
\* (ENOTDIR) or may not be read (EACCES)
readdirThrows(root) == root \in {"file", "unreadable"}

\* ------------------------------------------------ chunks of the ingested files

\* an array with every element computed
AsArray(q) == SubSeq(q, 1, Len(q))

\* parseAndChunkDocument(docPath, absolutePath) on file f, when parseDocument
\* does not throw: the array it returns
ParsedArray(f) ==
    AsArray(parseAndChunkDocument(PathOf(f), Root_docs, ContentOf(f),
                                  ConfigChunkSize, ConfigChunkOverlap))

\* the arrays of the files with a supported extension
ParsedFile ==
    [f \in {".git/readme.md", "faq/eu/vat.pdf", "faq/returns.txt", "guide.md",
            "policy/returns.md"} |-> ParsedArray(f)] @@ <<>>

\* In the state a DocumentChunk is kept as the file it was cut from and its
\* place in the array parseAndChunkDocument returned; Chunk gives the record.
ChunkRefs(f) == [k \in 1..Len(ParsedFile[f]) |-> [file |-> f, at |-> k]]
Chunk(ref) == ParsedFile[ref.file][ref.at]

\* chunks.map((c) => c.content)
ContentsOf(chunkRefs) == [i \in 1..Len(chunkRefs) |-> Chunk(chunkRefs[i]).content]

\* the set of the values of a sequence
Range(q) == {q[i] : i \in 1..Len(q)}

\* getDocumentStats(chunks): documents by documentId, chunks, and the
\* categories (a sorted array of distinct names, kept as a set)
getDocumentStats(chunkRefs) ==
    [totalDocuments |->
        Cardinality({Chunk(chunkRefs[i]).metadata.documentId : i \in 1..Len(chunkRefs)}),
     totalChunks |-> Len(chunkRefs),
     categories |->
        {Chunk(chunkRefs[i]).metadata.category : i \in 1..Len(chunkRefs)}
            \ {NoValue, <<>>}]

\* ------------------------------------------------------------- vector store

\* the store holds no collection of the configured name
NoCollection ==
    [exists |-> FALSE, size |-> "none", distance |-> "none", indexes |-> {}]
NullValue == <<"null">>

\* value || null
OrNull(v) == IF v = NoValue \/ v = <<>> THEN NullValue ELSE v

\* the payload indexChunks gives the point of a chunk
PayloadOf(chunk) ==
    [chunkId |-> chunk.id,
     content |-> chunk.content,
     documentId |-> chunk.metadata.documentId,
     documentName |-> chunk.metadata.documentName,
     documentPath |-> chunk.metadata.documentPath,
     chunkIndex |-> chunk.metadata.chunkIndex,
     totalChunks |-> chunk.metadata.totalChunks,
     category |-> OrNull(chunk.metadata.category),
     title |-> OrNull(chunk.metadata.title)]
PointPayload(ref) == PayloadOf(Chunk(ref))

\* the points indexChunks prepares: a fresh uuid (here the run and the place),
\* the embedding at the same place, and the chunk its payload is made from
PreparedPoints(run, chunkRefs, embeddings) ==
    [i \in 1..Len(chunkRefs) |->
        [id |-> <<run, i>>, vector |-> embeddings[i], chunk |-> chunkRefs[i]]]

\* points per upsert request
UpsertBatchSize == 100

\* an upsert after which the store holds the points of the request only
Upserted_OnlyLatest(stored, batch) == Range(batch)

\* an upsert that the reads do not see
Upserted_Unseen(stored, batch) == stored

\* the store after an upsert: a point replaces the stored point of its id
Upserted(stored, batch) ==
    {q \in stored : \A i \in 1..Len(batch) : batch[i].id # q.id} \cup Range(batch)

\* a collection made with the dot product as distance
CreatedCollection_Dot ==
    [exists |-> TRUE, size |-> "CONFIG.knowledge.embeddingDimension",
     distance |-> "Dot", indexes |-> {}]

\* the collection qdrant.createCollection makes, before its payload indexes
CreatedCollection ==
    [exists |-> TRUE, size |-> "CONFIG.knowledge.embeddingDimension",
     distance |-> "Cosine", indexes |-> {}]

\* a collectionExists that answers whether the request was answered
collectionExists_Answered(answered, coll) == answered

\* collectionExists(): whether getCollections lists the collection, and false
\* when the request fails
collectionExists(answered, coll) == answered /\ coll.exists

\* ----------------------------------------------------------------- at rest

ChunkerIdle ==
    /\ text = <<>> /\ chunkSize = 1 /\ overlap = 0 /\ cleanText = <<>>
    /\ start = 0 /\ chunks = <<>> /\ iter = 0 /\ docChunks = <<>> /\ ckPc = "idle"
    /\ windows = <<>>

NoStats == "none"
NoExit == -1

\* the locals of main before a run
RunLocalsInit ==
    /\ shouldReset = FALSE
    /\ documentPaths = <<>>
    /\ docIdx = 0
    /\ allChunks = <<>>
    /\ stats = NoStats
    /\ indexPoints = <<>>
    /\ upsertI = 0
    /\ exitCode = NoExit
    /\ exitReason = "none"
    /\ failedDocs = {}
    /\ upsertLog = <<>>
    /\ indexingComplete = FALSE

\* the arguments of a call: a field the call does not take is undefined (0
\* for the limit); and no call of a retrieval or registry function yet
NoArgs == [query |-> NoValue, topK |-> 0, category |-> NoValue, documentId |-> NoValue]
NoCall ==
    [op |-> "none", documentId |-> NoValue, outcome |-> "none", before |-> {},
     requests |-> 0]

\* the tickets of the store: the values of its tickets record in the order
\* of their creation; nextTicketNumber of a new store
FirstTicketNumber == 1000
EmptyStore == [tickets |-> <<>>, nextTicketNumber |-> FirstTicketNumber]

\* undefined, for a status, a priority or a name
Undefined == "undefined"

\* no ticket tool has been called
NoTicketCall ==
    [op |-> "none", ticketId |-> <<>>, supplied |-> {}, success |-> FALSE, at |-> 0,
     before |-> <<>>, after |-> <<>>]

CrmIdle ==
    /\ crmStore = EmptyStore
    /\ clock = 1
    /\ tCall = NoTicketCall
    /\ everClosed = {}
    /\ tPending = <<>>

\* no offset of a scroll request, and no next_page_offset of its answer
NoCursor == <<>>

QueryIdle ==
    /\ qPending = <<>>
    /\ qOp = "none"
    /\ qArgs = NoArgs
    /\ qOutcome = "none"
    /\ qResult = <<>>
    /\ qCalls = <<>>
    /\ qCount = 0
    /\ qPrev = NoCall
    /\ qBefore = {}
    /\ qChunks = <<>>

IngestIdle ==
    /\ QueryIdle
    /\ CrmIdle
    /\ collection = NoCollection
    /\ points = {}
    /\ fsRoot = "directory"
    /\ fsFiles = <<>>
    /\ pc = "idle"
    /\ runNo = 0
    /\ runLog = <<>>
    /\ RunLocalsInit

\* ------------------------------------------------------------ createEmbeddings

\* texts per request to the embedding endpoint
EmbedBatchSize == 100

\* the vector the embedding endpoint computes for a text
EmbeddingOf(t) == [vectorOf |-> t]

\* the orders in which the endpoint may list the items of a response
ShuffleKinds == {"inOrder", "reversed", "rotated", "oddsFirst"}

\* the 1-based input position listed at place j of a response of n items
ShuffledPosition(kind, n, j) ==
    CASE kind = "inOrder" -> j
      [] kind = "reversed" -> n + 1 - j
      [] kind = "rotated" -> (j % n) + 1
      [] kind = "oddsFirst" ->
            IF j <= (n + 1) \div 2 THEN 2 * j - 1 ELSE 2 * (j - (n + 1) \div 2)

\* data of a successful response for the batch: one item per input, each with
\* the 0-based position of its input as index, listed in the order of kind
EmbeddingResponse(batch, kind) ==
    [j \in 1..Len(batch) |->
        LET k == ShuffledPosition(kind, Len(batch), j)
        IN  [embedding |-> EmbeddingOf(batch[k]), index |-> k - 1]]

\* the comparator (a, b) => a.index - b.index
CompareIndex(a, b) == a.index - b.index

\* createEmbeddings without the sort of the response
SortByIndex_Unsorted(data) == data

\* data.sort(comparator): Array.prototype.sort is a stable sort, so an item
\* comes after the items that compare less and after the earlier items that
\* compare equal
SortByIndex(data) ==
    LET n == Len(data)
        before(k, j) == \/ CompareIndex(data[k], data[j]) < 0
                        \/ CompareIndex(data[k], data[j]) = 0 /\ k < j
        rank == SubSeq([j \in 1..n |-> 1 + Cardinality({k \in 1..n : before(k, j)})],
                       1, n)
        place == SubSeq([r \in 1..n |-> CHOOSE j \in 1..n : rank[j] = r], 1, n)
    IN  [r \in 1..n |-> data[place[r]]]

\* texts.slice(i, i + batchSize)
BatchOf(texts, i, size) == Slice(texts, i, i + size)

\* what one successful request adds to allEmbeddings
BatchEmbeddings(data) ==
    LET sortedData == SortByIndex(data)
    IN  [j \in 1..Len(sortedData) |-> sortedData[j].embedding]

\* no call of createEmbeddings is under way
EmbedIdle ==
    /\ embTexts = <<>>
    /\ embI = 0
    /\ allEmbeddings = <<>>
    /\ embPc = "idle"
    /\ embCalls = 0

\* entry of createEmbeddings: no request for an empty list
EmbedEnter ==
    /\ embPc = "call"
    /\ embI' = 0
    /\ allEmbeddings' = <<>>
    /\ embPc' = IF Len(embTexts) = 0 THEN "returned" ELSE "batch"
    /\ UNCHANGED <<embTexts, embCalls>>

\* one iteration of the loop: the request for the batch at i, answered with
\* the items in some order
EmbedBatchOk ==
    /\ embPc = "batch"
    /\ \E kind \in ShuffleKinds :
          LET batch == BatchOf(embTexts, embI, EmbedBatchSize)
              data == EmbeddingResponse(batch, kind)
          IN  allEmbeddings' = allEmbeddings \o BatchEmbeddings(data)
    /\ embI' = embI + EmbedBatchSize
    /\ embPc' = IF embI' < Len(embTexts) THEN "batch" ELSE "returned"
    /\ embCalls' = embCalls + 1
    /\ UNCHANGED embTexts

\* one iteration of the loop: the request is answered with a non-2xx status
EmbedBatchFail ==
    /\ embPc = "batch"
    /\ embPc' = "thrown"
    /\ embCalls' = embCalls + 1
    /\ UNCHANGED <<embTexts, embI, allEmbeddings>>

\* createEmbeddings on its own, on 0..MaxTexts texts, the i-th being the
\* decimal numeral of i
EmbedInit ==
    /\ ChunkerIdle
    /\ IngestIdle
    /\ \E n \in 0..MaxTexts : embTexts = [i \in 1..n |-> DecimalString(i)]
    /\ embI = 0
    /\ allEmbeddings = <<>>
    /\ embPc = "call"
    /\ embCalls = 0

EmbedNext ==
    \/ EmbedEnter /\ UNCHANGED <<chunkerVars, ingestVars>>
    \/ EmbedBatchOk /\ UNCHANGED <<chunkerVars, ingestVars>>
    \/ EmbedBatchFail /\ UNCHANGED <<chunkerVars, ingestVars>>

SpecEmbed == EmbedInit /\ [][EmbedNext]_vars

\* ------------------------------------------------- the chunker, step by step

\* the file the chunked text is read from
ChunkerBase == Root_docs
ChunkerFile == PathJoin(PathJoin(Root_docs, Dir_faq), File_returns_txt)

ChunkerInit ==
    /\ text \in SeqsUpTo(Alphabet, MaxTextLen)
    /\ chunkSize \in 1..MaxChunkSize
    /\ overlap \in 0..MaxOverlap
    /\ cleanText = <<>>
    /\ start = 0
    /\ chunks = <<>>
    /\ iter = 0
    /\ docChunks = <<>>
    /\ ckPc = "call"
    /\ windows = <<>>
    /\ EmbedIdle
    /\ IngestIdle

\* entry of splitIntoChunks: clean-up and the short-text return
SplitEnter ==
    /\ ckPc = "call"
    /\ cleanText' = CleanText(text)
    /\ start' = 0
    /\ IF Len(cleanText') <= chunkSize
       THEN chunks' = <<cleanText'>> /\ ckPc' = "returned"
       ELSE chunks' = <<>> /\ ckPc' = "loop"
    /\ UNCHANGED <<text, chunkSize, overlap, iter, docChunks, windows, embedVars,
                   ingestVars>>

\* one iteration of the while loop of splitIntoChunks
SplitIterate ==
    /\ ckPc = "loop"
    /\ iter < MaxIter
    /\ LET r == LoopBody(cleanText, chunkSize, overlap, start, chunks)
       IN  /\ chunks' = r.chunks
           /\ start' = r.start
           /\ ckPc' = IF r.again THEN "loop" ELSE "returned"
    /\ iter' = iter + 1
    /\ windows' = Append(windows, [start |-> start,
                                   end |-> WindowEnd(cleanText, chunkSize, start)])
    /\ UNCHANGED <<text, chunkSize, overlap, cleanText, docChunks, embedVars, ingestVars>>

\* the rest of parseAndChunkDocument, once splitIntoChunks has returned
ParseReturn ==
    /\ ckPc = "returned"
    /\ docChunks' = DocumentChunks(ChunkerFile, ChunkerBase, text, chunks)
    /\ ckPc' = "done"
    /\ UNCHANGED <<text, chunkSize, overlap, cleanText, start, chunks, iter, windows,
                   embedVars, ingestVars>>

ChunkerNext == SplitEnter \/ SplitIterate \/ ParseReturn

SpecChunker == ChunkerInit /\ [][ChunkerNext]_vars

\* ------------------------------------------------- main() of the ingestion CLI

\* process.exit(code), or the end of main, at one of the exits of the run
Exit(code, reason) ==
    /\ pc' = "exited"
    /\ exitCode' = code
    /\ exitReason' = reason
    /\ runLog' = Append(runLog, [reset |-> shouldReset, exitCode |-> code,
                                 chunks |-> Len(allChunks)])

\* main().catch: a rejection nothing in main catches
Fatal == Exit(1, "fatal")

\* the listings of at most MaxFiles of the files
Listings ==
    {SelectSeq(Listing, LAMBDA f : f \in chosen) :
        chosen \in {c \in SUBSET Range(Listing) : Cardinality(c) <= MaxFiles}}

IngestInit ==
    /\ ChunkerIdle
    /\ EmbedIdle
    /\ collection = NoCollection
    /\ points = {}
    /\ fsFiles \in Listings
    /\ fsRoot \in IF fsFiles = <<>> THEN RootKinds ELSE {"directory"}
    /\ pc = "start"
    /\ runNo = 1
    /\ runLog = <<>>
    /\ RunLocalsInit
    /\ QueryIdle
    /\ CrmIdle

\* main, to the --reset test
RunStart ==
    /\ pc = "start"
    /\ \E reset \in BOOLEAN :
          /\ shouldReset' = reset
          /\ pc' = IF reset THEN "delete_check" ELSE "find"
    /\ UNCHANGED <<storeVars, fsRoot, fsFiles, runNo, documentPaths, docIdx, allChunks, stats,
                   indexPoints, upsertI, exitCode, exitReason, historyVars, embedVars>>

\* deleteCollection: the collectionExists() test
DeleteCheck ==
    /\ pc = "delete_check"
    /\ \E answered \in BOOLEAN :
          pc' = IF collectionExists(answered, collection) THEN "delete_call" ELSE "find"
    /\ UNCHANGED <<storeVars, fsRoot, fsFiles, runNo, shouldReset, documentPaths, docIdx,
                   allChunks, stats, indexPoints, upsertI, exitCode, exitReason,
                   historyVars, embedVars>>

\* deleteCollection: qdrant.deleteCollection succeeds
DeleteCallOk ==
    /\ pc = "delete_call"
    /\ collection' = NoCollection
    /\ points' = {}
    /\ pc' = "find"
    /\ UNCHANGED <<fsRoot, fsFiles, runNo, shouldReset, documentPaths, docIdx, allChunks, stats,
                   indexPoints, upsertI, exitCode, exitReason, historyVars, embedVars>>

\* deleteCollection: qdrant.deleteCollection fails
DeleteCallFail ==
    /\ pc = "delete_call"
    /\ Fatal
    /\ UNCHANGED <<storeVars, fsRoot, fsFiles, runNo, shouldReset, documentPaths, docIdx,
                   allChunks, stats, indexPoints, upsertI, failedDocs, upsertLog,
                   indexingComplete, embedVars>>

\* a main that ends normally when findDocuments finds nothing
FindDocuments_EndsNormally ==
    /\ pc = "find"
    /\ ~(existsSync(fsRoot) /\ readdirThrows(fsRoot))
    /\ documentPaths' = IF existsSync(fsRoot) THEN findDocuments(fsFiles) ELSE <<>>
    /\ IF Len(documentPaths') = 0
       THEN Exit(0, "no_documents")
       ELSE pc' = "create_check" /\ UNCHANGED <<exitCode, exitReason, runLog>>
    /\ UNCHANGED <<storeVars, fsRoot, fsFiles, runNo, shouldReset, docIdx, allChunks, stats,
                   indexPoints, upsertI, failedDocs, upsertLog, indexingComplete,
                   embedVars>>

\* main: findDocuments and the exit when it finds nothing
FindDocuments ==
    /\ pc = "find"
    /\ ~(existsSync(fsRoot) /\ readdirThrows(fsRoot))
    /\ documentPaths' = IF existsSync(fsRoot) THEN findDocuments(fsFiles) ELSE <<>>
    /\ IF Len(documentPaths') = 0
       THEN Exit(1, "no_documents")
       ELSE pc' = "create_check" /\ UNCHANGED <<exitCode, exitReason, runLog>>
    /\ UNCHANGED <<storeVars, fsRoot, fsFiles, runNo, shouldReset, docIdx, allChunks, stats,
                   indexPoints, upsertI, failedDocs, upsertLog, indexingComplete,
                   embedVars>>

\* main: scanDir throws in findDocuments, which nothing in main catches
FindDocumentsThrows ==
    /\ pc = "find"
    /\ existsSync(fsRoot)
    /\ readdirThrows(fsRoot)
    /\ Fatal
    /\ UNCHANGED <<storeVars, fsRoot, fsFiles, runNo, shouldReset, documentPaths, docIdx,
                   allChunks, stats, indexPoints, upsertI, failedDocs, upsertLog,
                   indexingComplete, embedVars>>

\* createCollection: the collectionExists() test
CreateCheck ==
    /\ pc = "create_check"
    /\ \E answered \in BOOLEAN :
          pc' = IF collectionExists(answered, collection) THEN "parse" ELSE "create_call"
    /\ UNCHANGED <<storeVars, fsRoot, fsFiles, runNo, shouldReset, documentPaths, docIdx,
                   allChunks, stats, indexPoints, upsertI, exitCode, exitReason,
                   historyVars, embedVars>>

\* createCollection: qdrant.createCollection succeeds (the store makes a
\* collection only under a name it does not hold yet)
CreateCallOk ==
    /\ pc = "create_call"
    /\ ~collection.exists
    /\ collection' = CreatedCollection
    /\ pc' = "index_documentId"
    /\ UNCHANGED <<points, fsRoot, fsFiles, runNo, shouldReset, documentPaths, docIdx, allChunks,
                   stats, indexPoints, upsertI, exitCode, exitReason, historyVars,
                   embedVars>>

\* createCollection: qdrant.createCollection fails
CreateCallFail ==
    /\ pc = "create_call"
    /\ Fatal
    /\ UNCHANGED <<storeVars, fsRoot, fsFiles, runNo, shouldReset, documentPaths, docIdx,
                   allChunks, stats, indexPoints, upsertI, failedDocs, upsertLog,
                   indexingComplete, embedVars>>

\* createCollection: a qdrant.createPayloadIndex succeeds
CreateIndexOk ==
    /\ pc \in {"index_documentId", "index_category"}
    /\ collection.exists
    /\ collection' =
          [collection EXCEPT !.indexes =
              @ \cup {IF pc = "index_documentId" THEN "documentId" ELSE "category"}]
    /\ pc' = IF pc = "index_documentId" THEN "index_category" ELSE "parse"
    /\ UNCHANGED <<points, fsRoot, fsFiles, runNo, shouldReset, documentPaths, docIdx, allChunks,
                   stats, indexPoints, upsertI, exitCode, exitReason, historyVars,
                   embedVars>>

\* createCollection: a qdrant.createPayloadIndex fails
CreateIndexFail ==
    /\ pc \in {"index_documentId", "index_category"}
    /\ Fatal
    /\ UNCHANGED <<storeVars, fsRoot, fsFiles, runNo, shouldReset, documentPaths, docIdx,
                   allChunks, stats, indexPoints, upsertI, failedDocs, upsertLog,
                   indexingComplete, embedVars>>

\* main after the last document of the loop: the exit when no chunk was
\* made, else the statistics
AfterParseLoop(all) ==
    IF Len(all) = 0
    THEN Exit(1, "no_chunks") /\ UNCHANGED stats
    ELSE /\ stats' = getDocumentStats(all)
         /\ pc' = "index"
         /\ UNCHANGED <<exitCode, exitReason, runLog>>

\* main, one document of the loop: parseAndChunkDocument returns
ParseDocOk ==
    /\ pc = "parse"
    /\ docIdx < Len(documentPaths)
    /\ allChunks' = allChunks \o ChunkRefs(documentPaths[docIdx + 1])
    /\ docIdx' = docIdx + 1
    /\ IF docIdx' = Len(documentPaths)
       THEN AfterParseLoop(allChunks')
       ELSE UNCHANGED <<pc, stats, exitCode, exitReason, runLog>>
    /\ UNCHANGED <<storeVars, fsRoot, fsFiles, runNo, shouldReset, documentPaths, indexPoints,
                   upsertI, failedDocs, upsertLog, indexingComplete, embedVars>>

\* a loop without the try/catch: the throw of parseAndChunkDocument ends main
ParseDocFail_Aborting ==
    /\ pc = "parse"
    /\ docIdx < Len(documentPaths)
    /\ failedDocs' = failedDocs \cup {docIdx + 1}
    /\ Fatal
    /\ UNCHANGED <<storeVars, fsRoot, fsFiles, runNo, shouldReset, documentPaths, docIdx,
                   allChunks, stats, indexPoints, upsertI, upsertLog,
                   indexingComplete, embedVars>>

\* main, one document of the loop: parseAndChunkDocument throws, which the
\* loop catches and logs
ParseDocFail ==
    /\ pc = "parse"
    /\ docIdx < Len(documentPaths)
    /\ failedDocs' = failedDocs \cup {docIdx + 1}
    /\ docIdx' = docIdx + 1
    /\ IF docIdx' = Len(documentPaths)
       THEN AfterParseLoop(allChunks)
       ELSE UNCHANGED <<pc, stats, exitCode, exitReason, runLog>>
    /\ UNCHANGED <<storeVars, fsRoot, fsFiles, runNo, shouldReset, documentPaths, allChunks,
                   indexPoints, upsertI, upsertLog, indexingComplete, embedVars>>

\* indexChunks, to the call of createEmbeddings; it returns at once on no chunks
IndexChunksEnter ==
    /\ pc = "index"
    /\ IF Len(allChunks) = 0
       THEN /\ pc' = "stats_check"
            /\ indexingComplete' = TRUE
            /\ UNCHANGED embedVars
       ELSE /\ pc' = "embedding"
            /\ embTexts' = ContentsOf(allChunks)
            /\ embPc' = "call"
            /\ UNCHANGED <<embI, allEmbeddings, embCalls, indexingComplete>>
    /\ UNCHANGED <<storeVars, fsRoot, fsFiles, runNo, shouldReset, documentPaths, docIdx,
                   allChunks, stats, indexPoints, upsertI, exitCode, exitReason,
                   failedDocs, upsertLog, runLog>>

\* indexChunks: createEmbeddings returned, the points are prepared
PreparePoints ==
    /\ pc = "embedding"
    /\ embPc = "returned"
    /\ indexPoints' = PreparedPoints(runNo, allChunks, allEmbeddings)
    /\ upsertI' = 0
    /\ pc' = "upsert"
    /\ UNCHANGED <<storeVars, fsRoot, fsFiles, runNo, shouldReset, documentPaths, docIdx,
                   allChunks, stats, exitCode, exitReason, historyVars, embedVars>>

\* a catch that logs the failure and lets main end normally
IndexingFailed_EndsNormally == Exit(0, "index_failed")

\* main: createEmbeddings threw, indexChunks rejects, the catch exits
IndexingFailed == Exit(1, "index_failed")

EmbeddingThrown ==
    /\ pc = "embedding"
    /\ embPc = "thrown"
    /\ IndexingFailed
    /\ UNCHANGED <<storeVars, fsRoot, fsFiles, runNo, shouldReset, documentPaths, docIdx,
                   allChunks, stats, indexPoints, upsertI, failedDocs, upsertLog,
                   indexingComplete, embedVars>>

\* the upsert request of the batch at upsertI, with its outcome
UpsertRequest(ok) ==
    [first |-> upsertI,
     size |-> Len(BatchOf(indexPoints, upsertI, UpsertBatchSize)),
     ok |-> ok]

\* indexChunks, one iteration of the upsert loop: qdrant.upsert succeeds; after
\* the last batch main logs that indexing is complete
UpsertBatchOk ==
    /\ pc = "upsert"
    /\ collection.exists
    /\ points' = Upserted(points, BatchOf(indexPoints, upsertI, UpsertBatchSize))
    /\ upsertLog' = Append(upsertLog, UpsertRequest(TRUE))
    /\ upsertI' = upsertI + UpsertBatchSize
    /\ IF upsertI' < Len(indexPoints)
       THEN UNCHANGED <<pc, indexingComplete>>
       ELSE pc' = "stats_check" /\ indexingComplete' = TRUE
    /\ UNCHANGED <<collection, fsRoot, fsFiles, runNo, shouldReset, documentPaths, docIdx,
                   allChunks, stats, indexPoints, exitCode, exitReason, failedDocs,
                   runLog, embedVars>>

\* indexChunks, one iteration of the upsert loop: qdrant.upsert fails and
\* indexChunks rejects, the catch of main exits
UpsertBatchFail ==
    /\ pc = "upsert"
    /\ upsertLog' = Append(upsertLog, UpsertRequest(FALSE))
    /\ IndexingFailed
    /\ UNCHANGED <<storeVars, fsRoot, fsFiles, runNo, shouldReset, documentPaths, docIdx,
                   allChunks, stats, indexPoints, upsertI, failedDocs,
                   indexingComplete, embedVars>>

\* getStats: the collectionExists() test; without the collection getStats
\* returns the not_created record and main ends
StatsCheck ==
    /\ pc = "stats_check"
    /\ \E answered \in BOOLEAN :
          IF collectionExists(answered, collection)
          THEN pc' = "stats_call" /\ UNCHANGED <<exitCode, exitReason, runLog>>
          ELSE Exit(0, "ok")
    /\ UNCHANGED <<storeVars, fsRoot, fsFiles, runNo, shouldReset, documentPaths, docIdx,
                   allChunks, stats, indexPoints, upsertI, failedDocs, upsertLog,
                   indexingComplete, embedVars>>

\* getStats: qdrant.getCollection succeeds, main ends
StatsCallOk ==
    /\ pc = "stats_call"
    /\ collection.exists
    /\ Exit(0, "ok")
    /\ UNCHANGED <<storeVars, fsRoot, fsFiles, runNo, shouldReset, documentPaths, docIdx,
                   allChunks, stats, indexPoints, upsertI, failedDocs, upsertLog,
                   indexingComplete, embedVars>>

\* getStats: qdrant.getCollection fails
StatsCallFail ==
    /\ pc = "stats_call"
    /\ Fatal
    /\ UNCHANGED <<storeVars, fsRoot, fsFiles, runNo, shouldReset, documentPaths, docIdx,
                   allChunks, stats, indexPoints, upsertI, failedDocs, upsertLog,
                   indexingComplete, embedVars>>

\* the CLI is run again
NextRun ==
    /\ pc = "exited"
    /\ runNo < MaxRuns
    /\ runNo' = runNo + 1
    /\ pc' = "start"
    /\ shouldReset' = FALSE
    /\ documentPaths' = <<>>
    /\ docIdx' = 0
    /\ allChunks' = <<>>
    /\ stats' = NoStats
    /\ indexPoints' = <<>>
    /\ upsertI' = 0
    /\ exitCode' = NoExit
    /\ exitReason' = "none"
    /\ failedDocs' = {}
    /\ upsertLog' = <<>>
    /\ indexingComplete' = FALSE
    /\ embTexts' = <<>>
    /\ embI' = 0
    /\ allEmbeddings' = <<>>
    /\ embPc' = "idle"
    /\ embCalls' = 0
    /\ UNCHANGED <<storeVars, fsRoot, fsFiles, runLog>>

IngestNext ==
    \/ RunStart \/ DeleteCheck \/ DeleteCallOk \/ DeleteCallFail
    \/ FindDocuments \/ FindDocumentsThrows
    \/ CreateCheck \/ CreateCallOk \/ CreateCallFail
    \/ CreateIndexOk \/ CreateIndexFail
    \/ ParseDocOk \/ ParseDocFail
    \/ IndexChunksEnter \/ PreparePoints \/ EmbeddingThrown
    \/ UpsertBatchOk \/ UpsertBatchFail
    \/ StatsCheck \/ StatsCallOk \/ StatsCallFail
    \/ NextRun

Next ==
    \/ IngestNext /\ UNCHANGED <<chunkerVars, queryVars, crmVars>>
    \/ EmbedEnter /\ UNCHANGED <<chunkerVars, ingestVars>>
    \/ EmbedBatchOk /\ UNCHANGED <<chunkerVars, ingestVars>>
    \/ EmbedBatchFail /\ UNCHANGED <<chunkerVars, ingestVars>>

Spec == IngestInit /\ [][Next]_vars

\* ------------------------------------------------------------------ claims

\* C1 (as stated): no chunk returned by splitIntoChunks, and so no content of
\* a DocumentChunk, is empty or made of white space only, for every input
\* text, the empty and the white-space-only ones included.
C1_NoBlankChunk ==
    /\ ckPc \in {"returned", "done"} =>
            \A i \in 1..Len(chunks) : Trim(chunks[i]) # <<>>
    /\ ckPc = "done" =>
            \A i \in 1..Len(docChunks) : Trim(docChunks[i].content) # <<>>

\* C3: the chunks parseAndChunkDocument returns for a document carry the
\* chunkIndex values 0..N-1, each once and in order, and each reports
\* totalChunks = N, N being the number of text chunks of the document.
C3_DenseChunkIndex ==
    ckPc = "done" =>
        /\ Len(docChunks) = Len(chunks)
        /\ \A i \in 1..Len(docChunks) :
              /\ docChunks[i].metadata.chunkIndex = i - 1
              /\ docChunks[i].metadata.totalChunks = Len(chunks)

\* a document of three chunks has been parsed and chunked
C3_Witness == ckPc = "done" /\ Len(docChunks) = 3

\* C4: createEmbeddings returns one vector per input text, in input order,
\* whatever the number of texts and of batches and in whatever order the
\* endpoint lists the items of each response.
C4_EmbeddingOrder ==
    embPc = "returned" =>
        /\ Len(allEmbeddings) = Len(embTexts)
        /\ \A i \in 1..Len(embTexts) : allEmbeddings[i] = EmbeddingOf(embTexts[i])

\* a call on texts spanning three batches has returned after three requests
C4_Witness ==
    /\ embPc = "returned"
    /\ Len(embTexts) > 2 * EmbedBatchSize
    /\ embCalls = 3

\* ------------------------------------------------- claims on the ingestion

\* the chunks of the first upto of the located documents whose parse did
\* not throw, in the order of location
RECURSIVE ChunksOfDocs(_, _, _)
ChunksOfDocs(paths, failed, upto) ==
    IF upto = 0 THEN <<>>
    ELSE ChunksOfDocs(paths, failed, upto - 1)
            \o (IF upto \in failed THEN <<>> ELSE ChunkRefs(paths[upto]))

\* the chunks the files below the root yield when every parse succeeds
CorpusChunks ==
    LET located == findDocuments(fsFiles)
    IN  ChunksOfDocs(located, {}, Len(located))

\* the (documentId, chunkIndex) of a stored point
KeyOf(p) == <<PointPayload(p.chunk).documentId, PointPayload(p.chunk).chunkIndex>>

\* C2 (as stated): two chunks of one run that come from different files or
\* from different positions never share an id, and two different located
\* paths never share a documentId.
C2_UniqueChunkIds ==
    /\ \A i, j \in 1..Len(allChunks) :
          i # j => Chunk(allChunks[i]).id # Chunk(allChunks[j]).id
    /\ \A i, j \in 1..Len(documentPaths) :
          i # j => generateDocumentId(PathOf(documentPaths[i]))
                      # generateDocumentId(PathOf(documentPaths[j]))

\* C5 (as stated): when a run started with --reset ends normally, the
\* collection holds exactly the points that run prepared, whatever the store
\* held before and however the store calls of the run were answered.
C5_ResetRebuilds ==
    (pc = "exited" /\ exitCode = 0 /\ shouldReset) => points = Range(indexPoints)

\* C6 (as stated): after k runs without --reset that all ended normally on a
\* corpus of N chunks, the collection holds k * N points, and k points for
\* each (documentId, chunkIndex).
C6_AppendsPerRun ==
    LET k == Len(runLog)
        N == Len(CorpusChunks)
    IN  (/\ pc = "exited"
         /\ \A r \in 1..k : /\ ~runLog[r].reset
                             /\ runLog[r].exitCode = 0
                             /\ runLog[r].chunks = N)
        => /\ Cardinality(points) = k * N
           /\ \A p \in points :
                 Cardinality({q \in points : KeyOf(q) = KeyOf(p)}) = k

\* C7: the upsert requests of indexChunks carry at most 100 points each and
\* cover the prepared points in order; the points of every request that
\* succeeded are in the store; a request that failed is the last one of the
\* run, the run ends with exit code 1, and no point of the failed request or
\* of a later batch is in the store.
C7_UpsertBatches ==
    LET n == Len(upsertLog)
        sent(j) == {indexPoints[i] :
                      i \in (upsertLog[j].first + 1)..(upsertLog[j].first + upsertLog[j].size)}
    IN  /\ \A j \in 1..n :
              /\ upsertLog[j].first = (j - 1) * UpsertBatchSize
              /\ upsertLog[j].size >= 1
              /\ upsertLog[j].size <= 100
              /\ upsertLog[j].size = Min(100, Len(indexPoints) - upsertLog[j].first)
              /\ upsertLog[j].ok => sent(j) \subseteq points
              /\ j < n => upsertLog[j].ok
        /\ (n > 0 /\ ~upsertLog[n].ok) =>
              /\ pc = "exited"
              /\ exitCode = 1
              /\ ~indexingComplete
              /\ \A i \in (upsertLog[n].first + 1)..Len(indexPoints) :
                    indexPoints[i] \notin points

\* the second upsert request of a run failed after the first succeeded
C7_Witness ==
    /\ Len(upsertLog) = 2
    /\ upsertLog[1].ok
    /\ ~upsertLog[2].ok
    /\ Cardinality({p \in points : p.id[1] = runNo}) = UpsertBatchSize

\* C8: a run in which a request for embeddings or an upsert failed ends with
\* exit code 1 and never logs that indexing is complete; no upsert is sent
\* before every embedding is there; and when createEmbeddings threw, the
\* store holds no point of the run.
C8_IndexingFailureFatal ==
    LET indexingFailed ==
            \/ embPc = "thrown"
            \/ upsertLog # <<>> /\ ~upsertLog[Len(upsertLog)].ok
    IN  /\ indexingFailed => ~indexingComplete
        /\ (indexingFailed /\ pc = "exited") =>
              /\ exitCode = 1
              /\ exitReason = "index_failed"
        /\ indexingFailed => pc \in {"embedding", "exited"}
        /\ exitReason = "index_failed" => indexingFailed /\ exitCode = 1
        /\ upsertLog # <<>> =>
              /\ embPc = "returned"
              /\ Len(allEmbeddings) = Len(allChunks)
        /\ embPc = "thrown" =>
              /\ upsertLog = <<>>
              /\ \A p \in points : p.id[1] # runNo

\* a run has ended after its second request for embeddings failed, the store
\* holding the points of an earlier run
C8_Witness ==
    /\ pc = "exited"
    /\ embPc = "thrown"
    /\ embCalls = 2
    /\ points # {}

\* C9: the chunks main has collected are those of the documents processed so
\* far whose parse did not throw, in the order of location; a throw ends
\* neither the loop nor main before the last document, and the texts given to
\* createEmbeddings are the contents of these chunks.
C9_ParseFailureSkipsDocument ==
    /\ allChunks = ChunksOfDocs(documentPaths, failedDocs, docIdx)
    /\ pc \in {"index", "embedding", "upsert", "stats_check", "stats_call"} =>
          docIdx = Len(documentPaths)
    /\ (pc = "exited" /\ failedDocs # {}) => docIdx = Len(documentPaths)
    /\ pc \in {"embedding", "upsert"} => embTexts = ContentsOf(allChunks)

\* the first of two documents failed and the chunks of the second are embedded
C9_Witness ==
    /\ pc = "embedding"
    /\ Len(documentPaths) = 2
    /\ failedDocs = {1}
    /\ allChunks = ChunkRefs(documentPaths[2])
    /\ allChunks # <<>>

\* no ingestible document below the root, and the run got to look for them
EmptyFolderRunEnded ==
    /\ pc = "exited"
    /\ Len(findDocuments(fsFiles)) = 0
    /\ exitReason # "fatal"

\* C10 (as stated): a run on a folder without ingestible documents ends
\* normally with the statistics of no documents and no chunks, and sends no
\* request to the embedding endpoint.
C10_EmptyFolderNormal ==
    EmptyFolderRunEnded =>
        /\ exitCode = 0
        /\ stats # NoStats
        /\ stats.totalDocuments = 0
        /\ stats.totalChunks = 0
        /\ embCalls = 0

\* C10 (amended): a run on a folder without ingestible documents ends with
\* exit code 1 and without statistics, and sends no request to the embedding
\* endpoint.
C10_EmptyFolderFails ==
    /\ EmptyFolderRunEnded =>
          /\ exitCode = 1
          /\ exitReason = "no_documents"
          /\ stats = NoStats
    /\ Len(findDocuments(fsFiles)) = 0 => embCalls = 0 /\ embPc = "idle"

\* a run on a folder holding only a file of an unsupported format has ended
C10_Witness ==
    /\ EmptyFolderRunEnded
    /\ fsFiles = <<"notes.csv">>
    /\ documentPaths = <<>>

\* -------------------------------------------- retrieval and registry calls

\* ingestion runs behind the store a call meets, calls in a row, limit of a
\* search, and ingestion runs of the long file behind a store
MaxQueryRuns == 2
MaxCalls == 2
MaxTopK == 2
MaxScrollRuns == 10
\* reads that meet runs of main in flight
MaxMixedReads == 1
\* most tickets created, and calls of the ticket tools followed
MaxTickets == 2
MaxTicketCalls == 3

\* limit of each scroll request of listDocuments
ListPageSize == 100

\* the calls in a row that are followed: one on a store of more than a page
CallsBound(stored) == IF Cardinality(stored) > ListPageSize THEN 1 ELSE MaxCalls

\* value is truthy: neither undefined nor null nor the empty string
Truthy(v) == v # NoValue /\ v # NullValue /\ v # <<>>

\* the embeddings createEmbeddings returns for the chunks
EmbeddingsOf(chunkRefs) ==
    AsArray([i \in 1..Len(chunkRefs) |-> EmbeddingOf(Chunk(chunkRefs[i]).content)])

\* the points that the runs 1..upto of main index from the chunks, in the
\* order of their ids
RECURSIVE PointsOfRuns(_, _, _)
PointsOfRuns(chunkRefs, embeddings, upto) ==
    IF upto = 0 THEN <<>>
    ELSE PointsOfRuns(chunkRefs, embeddings, upto - 1)
            \o AsArray(PreparedPoints(upto, chunkRefs, embeddings))

\* the same for the chunks of the files below the root
IngestedPoints(upto) == PointsOfRuns(CorpusChunks, EmbeddingsOf(CorpusChunks), upto)

\* the run that indexed the latest of the stored points
LatestRun(stored) ==
    LET runs == {p.id[1] : p \in stored}
    IN  IF runs = {} THEN 0 ELSE CHOOSE r \in runs : \A s \in runs : s <= r

\* the points of a set one after the other
RECURSIVE SeqOfSet(_)
SeqOfSet(set) ==
    IF set = {} THEN <<>>
    ELSE LET p == CHOOSE q \in set : TRUE
         IN  <<p>> \o SeqOfSet(set \ {p})

\* the stored points in the order of their ids: those of whole runs are taken
\* from the points of the runs, any others are sorted
ById(stored) ==
    CHOOSE listed \in
        {IF Len(whole) = Cardinality(stored) THEN whole
         ELSE SortSeq(SeqOfSet(stored),
                      LAMBDA p, q : \/ p.id[1] < q.id[1]
                                    \/ p.id[1] = q.id[1] /\ p.id[2] < q.id[2]) :
            whole \in {SelectSeq(IngestedPoints(LatestRun(stored)),
                                 LAMBDA p : p \in stored)}} : TRUE

\* the stored points in one of the orders in which the store may list them
\* (by id for a scroll, by score for a search)
Permuted(base, kind) ==
    AsArray([j \in 1..Len(base) |-> base[ShuffledPosition(kind, Len(base), j)]])
StoreOrder(stored, kind) == Permuted(ById(stored), kind)

\* a request without filter, and a filter { must: [{ key, match: { value } }] }
NoFilter == [key |-> "none", value |-> NoValue]
MustMatch(key, value) == [key |-> key, value |-> value]

\* the points of a listing that a filter lets through
Matching(listed, filter) ==
    IF filter = NoFilter THEN listed
    ELSE SelectSeq(listed, LAMBDA p : PointPayload(p.chunk)[filter.key] = filter.value)

\* a delete request that removes every point of the collection
Deleted_Everything(stored, filter) == {}

\* the store without the points a delete request with the filter removes
Deleted(stored, filter) ==
    {p \in stored : PointPayload(p.chunk)[filter.key] # filter.value}

\* the documentIds of the stored points
StoredDocumentIds(stored) == {PointPayload(p.chunk).documentId : p \in stored}

\* a request as the client sent it, how it ended ("ok", "missing" when the
\* store answers that it holds no such collection, "failed" when the request
\* fails in transport) and the points the answer gave, in its order
PointRequest(name, filter, limit, answer, gave) ==
    [request |-> name, filter |-> filter, limit |-> limit, answer |-> answer,
     gave |-> gave]
Request(name, filter, limit, answer) == PointRequest(name, filter, limit, answer, <<>>)

\* how the store can answer a request on the points of the collection
PointAnswers(coll) == IF coll.exists THEN {"ok", "failed"} ELSE {"missing", "failed"}

\* the SearchResult made from a point of a response and its score
ResultOfPayload(payload, score) ==
    [content |-> payload.content,
     score |-> score,
     documentId |-> payload.documentId,
     documentName |-> payload.documentName,
     documentPath |-> payload.documentPath,
     chunkIndex |-> payload.chunkIndex,
     totalChunks |-> payload.totalChunks,
     category |-> payload.category,
     title |-> payload.title]
SearchResultOf(p, score) == ResultOfPayload(PointPayload(p.chunk), score)

\* the call that returned or threw last
LastCall ==
    [op |-> qOp, documentId |-> qArgs.documentId, outcome |-> qOutcome,
     before |-> qBefore, requests |-> Len(qCalls)]

\* a call returns or throws at its first request: what it leaves behind
Called(op, args, outcome, result, calls, locals) ==
    /\ qCount' = qCount + 1
    /\ qPrev' = LastCall
    /\ qBefore' = StoredDocumentIds(points)
    /\ qOp' = op
    /\ qArgs' = args
    /\ qOutcome' = outcome
    /\ qResult' = result
    /\ qCalls' = calls
    /\ qChunks' = locals
    /\ UNCHANGED <<qPending, chunkerVars, embedVars, fsRoot, fsFiles, runVars,
                   historyVars, crmVars>>

\* a call has got the answers to its first requests and awaits the answer to
\* its next one (stage), with its locals: the order in which the store lists
\* the points to it, let offset and the values of seen
PendingCall(op, args, stage, calls, kind) ==
    [no |-> qCount + 1, op |-> op, args |-> args, stage |-> stage, calls |-> calls,
     before |-> StoredDocumentIds(points), prev |-> LastCall,
     kind |-> kind, offset |-> NoCursor, seen |-> <<>>]
Awaits(op, args, stage, calls, kind) ==
    /\ qCount' = qCount + 1
    /\ qPending' = Append(qPending, PendingCall(op, args, stage, calls, kind))
    /\ UNCHANGED <<qOp, qArgs, qOutcome, qResult, qCalls, qPrev, qBefore, qChunks,
                   chunkerVars, embedVars, fsRoot, fsFiles, runVars, historyVars,
                   crmVars>>

\* the pending call at place i has got the answer and awaits the next one
GoesOn(i, call) ==
    /\ qPending' = [qPending EXCEPT ![i] = call]
    /\ UNCHANGED <<qOp, qArgs, qOutcome, qResult, qCalls, qCount, qPrev, qBefore,
                   qChunks, chunkerVars, embedVars, fsRoot, fsFiles, runVars,
                   historyVars, crmVars>>

\* the pending call at place i returns or throws
Ended(i, outcome, result, calls, locals) ==
    /\ qPending' = SubSeq(qPending, 1, i - 1) \o SubSeq(qPending, i + 1, Len(qPending))
    /\ qPrev' = qPending[i].prev
    /\ qBefore' = qPending[i].before
    /\ qOp' = qPending[i].op
    /\ qArgs' = qPending[i].args
    /\ qOutcome' = outcome
    /\ qResult' = result
    /\ qCalls' = calls
    /\ qChunks' = locals
    /\ UNCHANGED <<qCount, chunkerVars, embedVars, fsRoot, fsFiles, runVars,
                   historyVars, crmVars>>

\* ----------------------------------------------------------------- search

\* the texts asked for, and the categories passed (undefined: none passed)
Queries == {<<"v", "a", "t">>}
CategoryArgs == {NoValue, <<>>, Dir_faq, Dir_policy}

\* a search that never filters
SearchFilter_Never(category) == NoFilter

\* the filter search builds from options.category
SearchFilter(category) ==
    IF Truthy(category) THEN MustMatch("category", category) ELSE NoFilter

\* the orders by score that are followed, as orders by id
ScoreOrders == {"inOrder", "reversed"}

\* the score the store reports for hit j of n: hits come by descending score
StoreScore(n, j) == n - j

\* the hits of a search request: of the points the filter lets through, the
\* count most similar ones (those above the threshold, the limit at most)
SearchHits(listed, kind, filter, count) ==
    Slice(Matching(Permuted(listed, kind), filter), 0, count)

\* results.map(...) of search
SearchResults(hits) ==
    AsArray([j \in 1..Len(hits) |-> SearchResultOf(hits[j], StoreScore(Len(hits), j))])

\* the request qdrant.search of a search
SearchRequestOf(category, topK, answer, hits) ==
    PointRequest("search", SearchFilter(category), topK, answer, hits)

\* search(query, {topK, category}): createEmbedding throws
SearchEmbeddingFails ==
    \E query \in Queries, topK \in 1..MaxTopK, category \in CategoryArgs :
        /\ qCount < CallsBound(points)
        /\ Called("search",
                  [NoArgs EXCEPT !.query = query, !.topK = topK, !.category = category],
                  "threw", <<>>,
                  <<Request("embeddings", NoFilter, 0, "failed")>>, <<>>)
        /\ UNCHANGED storeVars

\* search(query, {topK, category}): the query is embedded, and the call
\* awaits qdrant.search
SearchEmbedding ==
    \E query \in Queries, topK \in 1..MaxTopK, category \in CategoryArgs :
        /\ qCount < CallsBound(points)
        /\ Awaits("search",
                  [NoArgs EXCEPT !.query = query, !.topK = topK, !.category = category],
                  "search", <<Request("embeddings", NoFilter, 0, "ok")>>, "inOrder")
        /\ UNCHANGED storeVars

\* search(query, {topK, category}): the store is asked, on the points it
\* holds by now; the call throws when the request fails
SearchRequest ==
    \E i \in 1..Len(qPending) :
        /\ qPending[i].op = "search"
        /\ \E listed \in {ById(points)}, count \in 0..MaxTopK,
              answer \in PointAnswers(collection), kind \in ScoreOrders :
              /\ count <= qPending[i].args.topK
              /\ answer # "ok" => kind = "inOrder" /\ count = 0
              /\ count <= Len(Matching(listed, SearchFilter(qPending[i].args.category)))
              /\ \E hits \in {IF answer = "ok"
                                THEN SearchHits(listed, kind,
                                         SearchFilter(qPending[i].args.category), count)
                                ELSE <<>>} :
                    Ended(i, IF answer = "ok" THEN "returned" ELSE "threw",
                          SearchResults(hits),
                          Append(qPending[i].calls,
                                 SearchRequestOf(qPending[i].args.category,
                                                 qPending[i].args.topK, answer, hits)),
                          <<>>)
        /\ UNCHANGED storeVars

\* ------------------------------------------------------- getDocumentChunks

\* limit of the scroll request of getDocumentChunks
ScrollLimit == 1000

\* the documentIds asked for: those of the stored points, and one that no
\* file has
UnknownDocumentId == <<"b", "m", "9", "u", "Z", "S", "5", "w", "Z", "G", "Y">>
DocumentIdArgs(stored) == StoredDocumentIds(stored) \cup {UnknownDocumentId}

\* the points of the answer to the scroll request of getDocumentChunks
ScrolledPoints(listed, kind, documentId) ==
    Slice(Matching(Permuted(listed, kind), MustMatch("documentId", documentId)),
          0, ScrollLimit)

\* results.points.map(...) of getDocumentChunks: the score is 1.0
MappedChunks(scrolled) ==
    AsArray([j \in 1..Len(scrolled) |-> SearchResultOf(scrolled[j], 1)])

\* the items of got whose chunkIndex is in lo..hi by ascending chunkIndex,
\* those of one chunkIndex in the order they have in got
RECURSIVE ByChunkIndex(_, _, _)
ByChunkIndex(got, lo, hi) ==
    IF lo > hi THEN <<>>
    ELSE IF lo = hi THEN SelectSeq(got, LAMBDA c : c.chunkIndex = lo)
    ELSE ByChunkIndex(got, lo, (lo + hi) \div 2)
            \o ByChunkIndex(got, (lo + hi) \div 2 + 1, hi)

\* a getDocumentChunks that returns the chunks as the store listed them
SortByChunkIndex_Unsorted(got) == got

\* chunks.sort((a, b) => a.chunkIndex - b.chunkIndex): a stable sort
SortByChunkIndex(got) ==
    IF Len(got) = 0 THEN <<>>
    ELSE ByChunkIndex(AsArray(got),
            CHOOSE lo \in {got[i].chunkIndex : i \in 1..Len(got)} :
                \A i \in 1..Len(got) : lo <= got[i].chunkIndex,
            CHOOSE hi \in {got[i].chunkIndex : i \in 1..Len(got)} :
                \A i \in 1..Len(got) : hi >= got[i].chunkIndex)

\* what getDocumentChunks returns for the points of the answer
getDocumentChunks(scrolled) == SortByChunkIndex(MappedChunks(scrolled))

\* the scroll request of getDocumentChunks
ScrollRequest(documentId, answer, gave) ==
    PointRequest("scroll", MustMatch("documentId", documentId), ScrollLimit, answer, gave)

\* getDocumentChunks(documentId): one scroll request; the call throws when
\* the request fails
GetDocumentChunks ==
    \E listed \in {ById(points)}, documentId \in DocumentIdArgs(points),
       answer \in PointAnswers(collection), kind \in ShuffleKinds :
        /\ qCount < CallsBound(points)
        /\ answer # "ok" => kind = "inOrder"
        /\ \E scrolled \in {IF answer = "ok"
                             THEN ScrolledPoints(listed, kind, documentId) ELSE <<>>} :
              Called("getDocumentChunks",
                     [NoArgs EXCEPT !.documentId = documentId],
                     IF answer = "ok" THEN "returned" ELSE "threw",
                     getDocumentChunks(scrolled),
                     <<ScrollRequest(documentId, answer, scrolled)>>, <<>>)
        /\ UNCHANGED storeVars

\* ---------------------------------------------------- executeGetInstruction

\* parts.join(sep) of the parts lo..hi
RECURSIVE JoinRange(_, _, _, _)
JoinRange(parts, sep, lo, hi) ==
    IF lo > hi THEN <<>>
    ELSE IF lo = hi THEN parts[lo]
    ELSE JoinRange(parts, sep, lo, (lo + hi) \div 2) \o sep
            \o JoinRange(parts, sep, (lo + hi) \div 2 + 1, hi)

\* parts.join(sep)
JoinWith(parts, sep) == JoinRange(parts, sep, 1, Len(parts))

\* chunks.map((c) => c.content).join('\n\n')
FullContent(got) ==
    JoinWith(AsArray([i \in 1..Len(got) |-> got[i].content]), <<LF, LF>>)

\* the lines of the header: name, title and category when there are, and
\* the number of parts
Header(meta) ==
    SelectSeq(<<[line |-> "documentName", value |-> meta.documentName],
                [line |-> "title", value |-> meta.title],
                [line |-> "category", value |-> meta.category],
                [line |-> "totalChunks", value |-> <<meta.totalChunks>>]>>,
              LAMBDA l : l.line \in {"documentName", "totalChunks"} \/ Truthy(l.value))

\* the ToolResult for the chunks getDocumentChunks returned
InstructionResult(got) ==
    IF Len(got) = 0
    THEN [success |-> FALSE, error |-> "not_found", header |-> <<>>, fullContent |-> <<>>]
    ELSE [success |-> TRUE, error |-> "none", header |-> Header(got[1]),
          fullContent |-> FullContent(got)]

\* the ToolResult of the catch clause
InstructionFailed ==
    [success |-> FALSE, error |-> "failed", header |-> <<>>, fullContent |-> <<>>]

\* executeGetInstruction({document_id}): never throws
ExecuteGetInstruction ==
    \E listed \in {ById(points)}, documentId \in DocumentIdArgs(points),
       answer \in PointAnswers(collection), kind \in ShuffleKinds :
        /\ qCount < CallsBound(points)
        /\ answer # "ok" => kind = "inOrder"
        /\ \E scrolled \in {IF answer = "ok"
                             THEN ScrolledPoints(listed, kind, documentId) ELSE <<>>} :
              \E got \in {getDocumentChunks(scrolled)} :
                  Called("executeGetInstruction",
                         [NoArgs EXCEPT !.documentId = documentId],
                         "returned",
                         IF answer = "ok" THEN InstructionResult(got) ELSE InstructionFailed,
                         <<ScrollRequest(documentId, answer, scrolled)>>,
                         got)
        /\ UNCHANGED storeVars

\* ------------------------------------------------------ deleteDocumentChunks

\* deleteDocumentChunks(documentId): one delete request with the filter; the
\* call throws when the request fails
DeleteDocumentChunks ==
    \E documentId \in DocumentIdArgs(points), answer \in PointAnswers(collection) :
        /\ qCount < CallsBound(points)
        /\ Called("deleteDocumentChunks",
                  [NoArgs EXCEPT !.documentId = documentId],
                  IF answer = "ok" THEN "returned" ELSE "threw",
                  <<>>,
                  <<Request("delete", MustMatch("documentId", documentId), 0, answer)>>,
                  <<>>)
        /\ points' = IF answer = "ok"
                     THEN Deleted(points, MustMatch("documentId", documentId))
                     ELSE points
        /\ UNCHANGED collection

\* ------------------------------------------------------------ listDocuments

\* the request getCollections of collectionExists
ExistsRequest(answered) ==
    Request("getCollections", NoFilter, 0, IF answered THEN "ok" ELSE "failed")

\* the entry of seen made from the payload of a point
DocumentEntry(payload) ==
    [documentId |-> payload.documentId,
     documentName |-> payload.documentName,
     category |-> payload.category,
     title |-> payload.title]

\* the places of the ids that no earlier place holds
FirstPlaces(ids) ==
    SelectSeq(AsArray([j \in 1..Len(ids) |-> j]),
              LAMBDA j : \A k \in 1..(j - 1) : ids[k] # ids[j])

\* the documentIds of the points of a scan
ScannedIds(scanned) ==
    AsArray([j \in 1..Len(scanned) |-> PointPayload(scanned[j].chunk).documentId])

\* the entries made from the points of the scan at the places
EntriesAt(scanned, places) ==
    AsArray([r \in 1..Len(places) |->
                DocumentEntry(PointPayload(scanned[places[r]].chunk))])

\* a scan in which a later point of a documentId replaces the entry
SeenValues_LastSeen(scanned) ==
    EntriesAt(scanned,
        SelectSeq(AsArray([j \in 1..Len(scanned) |-> j]),
                  LAMBDA j : \A k \in (j + 1)..Len(scanned) :
                      ScannedIds(scanned)[k] # ScannedIds(scanned)[j]))

\* Array.from(seen.values()): an entry for the first point of each
\* documentId, in the order of the scan
SeenValues(scanned) == EntriesAt(scanned, FirstPlaces(ScannedIds(scanned)))

\* the orders in which the store lists the points to a scroll: the order of
\* their ids, which are random; followed are the order of the runs and places
\* and its reverse
ScanOrders == {"inOrder", "reversed"}

\* the id a comes before the id b in the order
Precedes(kind, a, b) ==
    IF kind = "reversed"
    THEN b[1] < a[1] \/ (b[1] = a[1] /\ b[2] < a[2])
    ELSE a[1] < b[1] \/ (a[1] = b[1] /\ a[2] < b[2])

\* the answer of the store to a scroll request with the offset, on the points
\* it holds in the order it lists them: the page from the first point whose
\* id is not before the offset, and as next_page_offset the id of the point
\* after the page, none when no point is left
ScrollPage(listed, kind, offset) ==
    CHOOSE page \in
        {[gave |-> Slice(rest, 0, ListPageSize),
          next |-> IF Len(rest) > ListPageSize THEN rest[ListPageSize + 1].id
                   ELSE NoCursor] :
            rest \in {IF offset = NoCursor THEN listed
                      ELSE SelectSeq(listed,
                                     LAMBDA p : ~Precedes(kind, p.id, offset))}} : TRUE

\* a loop that stops after its first page
ScanGoesOn_Never(page) == FALSE

\* if (!results.next_page_offset) break
ScanGoesOn(page) == page.next # NoCursor

\* the scroll request of an iteration: the offset passed, and the
\* next_page_offset of the answer
PageRequest(offset, answer, gave, next) ==
    [request |-> "scroll", filter |-> NoFilter, limit |-> ListPageSize,
     answer |-> answer, gave |-> gave, offset |-> offset, next |-> next]

\* seen after the points of a page: an entry is set for a documentId that has
\* none yet
SeenAfter(seen, gave) ==
    seen \o SeenValues(SelectSeq(gave, LAMBDA p :
                \A j \in 1..Len(seen) :
                    seen[j].documentId # PointPayload(p.chunk).documentId))

\* listDocuments() to its loop: the empty list when collectionExists() is
\* false
ListEnter ==
    \E answered \in BOOLEAN, kind \in ScanOrders :
        /\ qCount < CallsBound(points)
        /\ ~collectionExists(answered, collection) => kind = "inOrder"
        /\ IF collectionExists(answered, collection)
           THEN Awaits("listDocuments", NoArgs, "scroll", <<ExistsRequest(answered)>>,
                       kind)
           ELSE Called("listDocuments", NoArgs, "returned", <<>>,
                       <<ExistsRequest(answered)>>, <<>>)
        /\ UNCHANGED storeVars

\* listDocuments(), one iteration of its loop: the scroll request with the
\* offset on the points the store holds by now, the entries of the new
\* documentIds, and the break when the answer has no next_page_offset; the
\* call throws when the request fails
ListPage ==
    \E i \in 1..Len(qPending) :
        /\ qPending[i].op = "listDocuments"
        /\ \/ \E answer \in PointAnswers(collection) \ {"ok"} :
                 Ended(i, "threw", <<>>,
                       Append(qPending[i].calls,
                              PageRequest(qPending[i].offset, answer, <<>>, NoCursor)),
                       <<>>)
           \/ /\ collection.exists
              /\ \E page \in {ScrollPage(StoreOrder(points, qPending[i].kind),
                                         qPending[i].kind, qPending[i].offset)} :
                    \E calls \in {Append(qPending[i].calls,
                                         PageRequest(qPending[i].offset, "ok",
                                                     page.gave, page.next))} :
                        IF ScanGoesOn(page)
                        THEN GoesOn(i, [qPending[i] EXCEPT
                                            !.calls = calls,
                                            !.seen = SeenAfter(@, page.gave),
                                            !.offset = page.next])
                        ELSE Ended(i, "returned",
                                   SeenAfter(qPending[i].seen, page.gave), calls, <<>>)
        /\ UNCHANGED storeVars

\* --------------------------------------- collectionExists, createCollection

\* collectionExists(): never throws
CollectionExists ==
    \E answered \in BOOLEAN :
        /\ qCount < CallsBound(points)
        /\ Called("collectionExists", NoArgs, "returned",
                  collectionExists(answered, collection),
                  <<ExistsRequest(answered)>>, <<>>)
        /\ UNCHANGED storeVars

\* the requests of createCollection after the check
CreateRequest(answer) == Request("createCollection", NoFilter, 0, answer)
IndexRequest(field, answer) ==
    Request("createPayloadIndex", MustMatch("field_name", <<field>>), 0, answer)

\* createCollection(): nothing after the check when collectionExists() is
\* true; else the call awaits qdrant.createCollection
CreateCollectionEnter ==
    \E answered \in BOOLEAN :
        /\ qCount < CallsBound(points)
        /\ IF collectionExists(answered, collection)
           THEN Called("createCollection", NoArgs, "returned", <<>>,
                       <<ExistsRequest(answered)>>, <<>>)
           ELSE Awaits("createCollection", NoArgs, "createCollection",
                       <<ExistsRequest(answered)>>, "inOrder")
        /\ UNCHANGED storeVars

\* createCollection(): qdrant.createCollection; the store makes a collection
\* only under a name it does not hold by now, and the call throws when the
\* request fails
CreateCollectionRequest ==
    \E i \in 1..Len(qPending) :
        /\ qPending[i].stage = "createCollection"
        /\ \/ /\ ~collection.exists
              /\ collection' = CreatedCollection
              /\ GoesOn(i, [qPending[i] EXCEPT
                                !.stage = "documentId",
                                !.calls = Append(@, CreateRequest("ok"))])
           \/ /\ Ended(i, "threw", <<>>,
                       Append(qPending[i].calls, CreateRequest("failed")), <<>>)
              /\ UNCHANGED collection
        /\ UNCHANGED points

\* createCollection(): qdrant.createPayloadIndex for documentId and then for
\* category, on the collection the store holds by now; the call throws when
\* a request fails
CreateCollectionIndex ==
    \E i \in 1..Len(qPending) :
        /\ qPending[i].stage \in {"documentId", "category"}
        /\ \E answer \in PointAnswers(collection) :
              \E calls \in {Append(qPending[i].calls,
                                   IndexRequest(qPending[i].stage, answer))} :
                  /\ collection' = IF answer = "ok"
                                   THEN [collection EXCEPT
                                            !.indexes = @ \cup {qPending[i].stage}]
                                   ELSE collection
                  /\ IF answer # "ok" THEN Ended(i, "threw", <<>>, calls, <<>>)
                     ELSE IF qPending[i].stage = "documentId"
                     THEN GoesOn(i, [qPending[i] EXCEPT !.stage = "category",
                                                        !.calls = calls])
                     ELSE Ended(i, "returned", <<>>, calls, <<>>)
        /\ UNCHANGED points

\* the collection as createCollection leaves it when every request succeeds
ReadyCollection == [CreatedCollection EXCEPT !.indexes = {"documentId", "category"}]

\* ---------------------------------------------------------- deleteCollection

\* deleteCollection(): nothing after the check when collectionExists() is
\* false; else the call awaits qdrant.deleteCollection
DeleteCollectionEnter ==
    \E answered \in BOOLEAN :
        /\ qCount < CallsBound(points)
        /\ IF collectionExists(answered, collection)
           THEN Awaits("deleteCollection", NoArgs, "deleteCollection",
                       <<ExistsRequest(answered)>>, "inOrder")
           ELSE Called("deleteCollection", NoArgs, "returned", <<>>,
                       <<ExistsRequest(answered)>>, <<>>)
        /\ UNCHANGED storeVars

\* deleteCollection(): qdrant.deleteCollection, after which the store holds
\* neither the collection nor its points; the call throws when the request
\* fails
DeleteCollectionRequest ==
    \E i \in 1..Len(qPending) :
        /\ qPending[i].stage = "deleteCollection"
        /\ \E answer \in PointAnswers(collection) :
              /\ Ended(i, IF answer = "ok" THEN "returned" ELSE "threw", <<>>,
                       Append(qPending[i].calls,
                              Request("deleteCollection", NoFilter, 0, answer)),
                       <<>>)
              /\ collection' = IF answer = "ok" THEN NoCollection ELSE collection
              /\ points' = IF answer = "ok" THEN {} ELSE points

\* ---------------------------------------------------- executeSearchKnowledge

\* args.limit || 5
DefaultLimit == 5
LimitOrDefault(limit) == IF limit = 0 THEN DefaultLimit ELSE limit

\* the ToolResult when collectionExists() is false, the ToolResult of the
\* catch clause, and the ToolResult for the results search returned
SearchNotConfigured == [success |-> FALSE, error |-> "not_configured", output |-> "none"]

\* a catch clause that reports the failure as a search without results
SearchToolFailed_AsEmpty == [success |-> TRUE, error |-> "none", output |-> "nothing_found"]

SearchToolFailed == [success |-> FALSE, error |-> "search_error", output |-> "none"]
SearchToolResult(results) ==
    [success |-> TRUE, error |-> "none",
     output |-> IF Len(results) = 0 THEN "nothing_found" ELSE "found"]

\* executeSearchKnowledge({query, category, limit}): never throws.  It asks
\* collectionExists() and, when that is true, awaits search(query, {topK,
\* category}); a limit of 0 stands for no limit passed
ExecuteSearchKnowledgeEnter ==
    \E answered \in BOOLEAN, query \in Queries, category \in CategoryArgs,
       limit \in 0..MaxTopK :
        /\ qCount < CallsBound(points)
        /\ \E args \in {[NoArgs EXCEPT !.query = query, !.topK = limit,
                                       !.category = category]} :
              IF collectionExists(answered, collection)
              THEN Awaits("executeSearchKnowledge", args, "embeddings",
                          <<ExistsRequest(answered)>>, "inOrder")
              ELSE Called("executeSearchKnowledge", args, "returned",
                          SearchNotConfigured, <<ExistsRequest(answered)>>, <<>>)
        /\ UNCHANGED storeVars

\* executeSearchKnowledge: createEmbedding of search; the catch clause
\* reports its throw
ExecuteSearchKnowledgeEmbedding ==
    \E i \in 1..Len(qPending) :
        /\ qPending[i].stage = "embeddings"
        /\ \/ GoesOn(i, [qPending[i] EXCEPT
                            !.stage = "toolSearch",
                            !.calls = Append(@, Request("embeddings", NoFilter, 0, "ok"))])
           \/ Ended(i, "returned", SearchToolFailed,
                    Append(qPending[i].calls,
                           Request("embeddings", NoFilter, 0, "failed")),
                    <<>>)
        /\ UNCHANGED storeVars

\* executeSearchKnowledge: qdrant.search of search, on the points the store
\* holds by now; the catch clause reports the throw of a request that fails
ExecuteSearchKnowledgeSearch ==
    \E i \in 1..Len(qPending) :
        /\ qPending[i].stage = "toolSearch"
        /\ \E listed \in {ById(points)}, count \in 0..MaxTopK,
              answer \in PointAnswers(collection), kind \in ScoreOrders :
              /\ count <= LimitOrDefault(qPending[i].args.topK)
              /\ answer # "ok" => kind = "inOrder" /\ count = 0
              /\ count <= Len(Matching(listed, SearchFilter(qPending[i].args.category)))
              /\ \E hits \in {IF answer = "ok"
                                THEN SearchHits(listed, kind,
                                         SearchFilter(qPending[i].args.category), count)
                                ELSE <<>>} :
                    Ended(i, "returned",
                          IF answer = "ok" THEN SearchToolResult(SearchResults(hits))
                          ELSE SearchToolFailed,
                          Append(qPending[i].calls,
                                 SearchRequestOf(qPending[i].args.category,
                                     LimitOrDefault(qPending[i].args.topK), answer, hits)),
                          SearchResults(hits))
        /\ UNCHANGED storeVars

\* no run of main going on
NoRun ==
    /\ ChunkerIdle
    /\ EmbedIdle
    /\ QueryIdle
    /\ CrmIdle
    /\ pc = "idle"
    /\ runNo = 0
    /\ runLog = <<>>
    /\ RunLocalsInit

\* the store after the runs of main without --reset on the files, every
\* request answered
StoreAfterRuns(runs) ==
    \E corpus \in {CorpusChunks} :
        /\ (runs > 0) = (Len(corpus) > 0)
        /\ \E embeddings \in {EmbeddingsOf(corpus)} :
              \E indexed \in {PointsOfRuns(corpus, embeddings, runs)} :
                  points = Range(indexed)

\* the file of more than a page of chunks
LongFile == "guide.md"

\* the calls meet the store after runs of main on one of the listings of
\* the short files; before the first run (no file yet) the collection may
\* also be absent, or left without indexes by a createCollection that failed
QueryInit ==
    /\ NoRun
    /\ fsRoot = "directory"
    /\ fsFiles \in {l \in Listings : LongFile \notin Range(l)}
    /\ \E runs \in 0..MaxQueryRuns :
          /\ StoreAfterRuns(runs)
          /\ collection \in
                IF runs > 0 THEN {ReadyCollection}
                ELSE {NoCollection, CreatedCollection, ReadyCollection}

QueryNext ==
    \/ SearchEmbeddingFails
    \/ SearchEmbedding
    \/ SearchRequest
    \/ GetDocumentChunks
    \/ ExecuteGetInstruction
    \/ DeleteDocumentChunks
    \/ ListEnter
    \/ ListPage
    \/ CollectionExists
    \/ CreateCollectionEnter
    \/ CreateCollectionRequest
    \/ CreateCollectionIndex

SpecQuery == QueryInit /\ [][QueryNext]_vars

\* the search tool on the same stores, with the calls that take from the
\* store between its requests
ToolNext ==
    \/ ExecuteSearchKnowledgeEnter
    \/ ExecuteSearchKnowledgeEmbedding
    \/ ExecuteSearchKnowledgeSearch
    \/ CollectionExists
    \/ DeleteDocumentChunks
    \/ DeleteCollectionEnter
    \/ DeleteCollectionRequest

SpecTool == QueryInit /\ [][ToolNext]_vars

\* the calls that scroll meet the store after runs of main on the long file
ScrollInit ==
    /\ NoRun
    /\ fsRoot = "directory"
    /\ fsFiles = <<LongFile>>
    /\ \E runs \in 1..MaxScrollRuns : StoreAfterRuns(runs)
    /\ collection = ReadyCollection

ScrollNext ==
    \/ GetDocumentChunks
    \/ ExecuteGetInstruction
    \/ ListEnter
    \/ ListPage

SpecScroll == ScrollInit /\ [][ScrollNext]_vars

\* listDocuments alone on the store after runs of main on the long file; an
\* iteration that can be taken is taken
ListNext == ListEnter \/ ListPage

SpecList == ScrollInit /\ [][ListNext]_vars /\ WF_vars(ListPage)

\* runs of main on the long file and a short one, and reads of the bot that
\* meet them at any of their requests: the two are different processes on one
\* store, and neither waits for the other; the runs are followed up to the
\* return of the last of the reads, and the searches followed pass the
\* largest limit and no category
MixedInit ==
    /\ IngestInit
    /\ fsFiles = <<LongFile, "policy/returns.md">>

MixedNext ==
    \/ (qCount < MaxMixedReads \/ qPending # <<>>) /\ Next
    \/ qCount < MaxMixedReads /\ ListEnter
    \/ ListPage
    \/ /\ qCount < MaxMixedReads
       /\ SearchEmbeddingFails
       /\ qArgs'.topK = MaxTopK
       /\ qArgs'.category = NoValue
    \/ /\ qCount < MaxMixedReads
       /\ SearchEmbedding
       /\ qPending'[Len(qPending')].args.topK = MaxTopK
       /\ qPending'[Len(qPending')].args.category = NoValue
    \/ SearchRequest

SpecMixed == MixedInit /\ [][MixedNext]_vars

\* ------------------------------------------------------------ ticket tools

TicketStatuses == {"new", "open", "pending", "resolved", "closed"}
TicketPriorities == {"low", "normal", "high", "urgent"}

\* the fields of a ticket that update_ticket can set
UpdateFields == {"status", "priority", "assigneeName", "tags"}

\* the arguments the tools are called with: each optional one may be left out
StatusArgs == {Undefined, "resolved"}
PriorityArgs == {Undefined, "high"}
AssigneeArgs == {Undefined}
TagArgs == {NoValue, <<"vip">>}

\* the id uuidv4() gives the k-th ticket: never digits only
uuidv4(k) == <<"i", "d", "-">> \o (IF k = 1 THEN <<"a">> ELSE <<"b">>)

\* the ticket_id arguments: numbers with and without #, ids, and one that
\* names no ticket
TicketIdArgs ==
    {<<"1", "0", "0", "0">>, <<"#", "1", "0", "0", "1">>, uuidv4(1), <<"#", "x">>}

\* ticket_id.match(/^#?(\d+)$/): the digits of group 1, or the empty sequence
\* for null
numberMatch(ticketId) ==
    LET rest == IF ticketId # <<>> /\ ticketId[1] = "#" THEN Tail(ticketId) ELSE ticketId
    IN  IF rest # <<>> /\ \A i \in 1..Len(rest) : InTuple(Digits, rest[i])
        THEN rest ELSE <<>>

\* parseInt of a sequence of digits
RECURSIVE parseInt(_)
parseInt(digits) ==
    IF digits = <<>> THEN 0
    ELSE 10 * parseInt(SubSeq(digits, 1, Len(digits) - 1))
            + PosIn(Digits, digits[Len(digits)]) - 1

\* getTicket and getTicketByNumber: the place of the ticket in the store, 0
\* for null
getTicket(store, id) ==
    IF \E k \in 1..Len(store.tickets) : store.tickets[k].id = id
    THEN CHOOSE k \in 1..Len(store.tickets) : store.tickets[k].id = id
    ELSE 0
getTicketByNumber(store, number) ==
    IF \E k \in 1..Len(store.tickets) : store.tickets[k].number = number
    THEN CHOOSE k \in 1..Len(store.tickets) :
            /\ store.tickets[k].number = number
            /\ \A j \in 1..(k - 1) : store.tickets[j].number # number
    ELSE 0

\* createTicket: the store with the new ticket; closedAt is 0 while the
\* ticket has none
createTicket(store, data, now) ==
    [tickets |-> Append(store.tickets,
        [id |-> uuidv4(Len(store.tickets) + 1),
         number |-> store.nextTicketNumber,
         status |-> IF data.status = Undefined THEN "new" ELSE data.status,
         priority |-> IF data.priority = Undefined THEN "normal" ELSE data.priority,
         assigneeName |-> data.assigneeName,
         tags |-> IF data.tags = NoValue THEN <<>> ELSE data.tags,
         createdAt |-> now,
         updatedAt |-> now,
         closedAt |-> 0,
         notes |-> <<>>]),
     nextTicketNumber |-> store.nextTicketNumber + 1]

\* Object.assign(ticket, data, { updatedAt: new Date() }): every own property
\* of data is copied, one whose value is undefined too
ObjectAssign(ticket, data, now) ==
    [k \in DOMAIN ticket |->
        IF k = "updatedAt" THEN now
        ELSE IF k \in DOMAIN data THEN data[k] ELSE ticket[k]]

\* updateTicket on the ticket at a place of the store
updateTicket(store, at, data, now) ==
    LET wasOpen == store.tickets[at].status \in {"new", "open", "pending"}
        assigned == ObjectAssign(store.tickets[at], data, now)
        isNowClosed == assigned.status \in {"resolved", "closed"}
    IN  [store EXCEPT !.tickets[at] =
            IF ~wasOpen /\ isNowClosed /\ assigned.closedAt = 0
            THEN [assigned EXCEPT !.closedAt = now]
            ELSE assigned]

\* addTicketNote on the ticket at a place of the store: the note is pushed
\* and updatedAt is set
addTicketNote(store, at, note, now) ==
    [store EXCEPT !.tickets[at] =
        [@ EXCEPT !.notes = Append(@, [authorId |-> "bot",
                                       authorName |-> note.authorName,
                                       isInternal |-> note.isInternal,
                                       createdAt |-> now]),
                  !.updatedAt = now]]

\* formatTicket throws when it reads ticket.tags.length of a ticket whose
\* tags are undefined
formatTicketThrows(ticket) == ticket.tags = NoValue

\* the ids of the tickets that are resolved or closed
ClosedNow(store) ==
    {store.tickets[k].id : k \in {j \in 1..Len(store.tickets) :
                                    store.tickets[j].status \in {"resolved", "closed"}}}

\* no fields to update, and no note
NoData == [status |-> Undefined, priority |-> Undefined, assigneeName |-> Undefined,
           tags |-> NoValue]
NoNote == [authorName |-> Undefined, isInternal |-> FALSE]

\* a call of a tool that has yielded at an await, with its ticket_id, the
\* place of the ticket its look-up gave (0 for null) and the ticket as the
\* provider found and left it; what it does when it resumes is its stage:
\* notFound (the return after a look-up that gave null), updateTicket,
\* addTicketNote, return (the result of createTicket or updateTicket is
\* formatted) or noteReturn (the return after addTicketNote)
PendingTool(op, stage, ticketId, at, data, note, supplied, before, after) ==
    [op |-> op, stage |-> stage, ticketId |-> ticketId, at |-> at, data |-> data,
     note |-> note, supplied |-> supplied, before |-> before, after |-> after]

\* the pending calls whose next step is counted against MaxTicketCalls
AwaitingProvider ==
    Cardinality({i \in 1..Len(tPending) :
                    tPending[i].stage \in {"notFound", "updateTicket", "addTicketNote"}})

\* tPending without the call at place i
Resumed(i) == SubSeq(tPending, 1, i - 1) \o SubSeq(tPending, i + 1, Len(tPending))

\* a tool returns: what its call leaves behind
Returned(op, ticketId, supplied, success, at, before, after) ==
    tCall' = [op |-> op, ticketId |-> ticketId, supplied |-> supplied,
              success |-> success, at |-> at, before |-> before, after |-> after]

\* executeCreateTicket: the tool passes priority || 'normal' and tags || [],
\* and neither a status nor an assignee, and awaits createTicket
ExecuteCreateTicket ==
    \E priority \in PriorityArgs, tags \in TagArgs :
        /\ clock + AwaitingProvider <= MaxTicketCalls
        /\ Len(crmStore.tickets) < MaxTickets
        /\ crmStore' = createTicket(crmStore,
                            [status |-> Undefined,
                             priority |-> IF priority = Undefined THEN "normal"
                                          ELSE priority,
                             assigneeName |-> Undefined,
                             tags |-> IF tags = NoValue THEN <<>> ELSE tags],
                            clock)
        /\ clock' = clock + 1
        /\ tPending' = Append(tPending,
              PendingTool("create_ticket", "return", <<>>, Len(crmStore.tickets) + 1,
                          NoData, NoNote,
                          {"priority" : x \in {priority} \ {Undefined}}
                              \cup {"tags" : x \in {tags} \ {NoValue}},
                          <<>>, <<crmStore'.tickets[Len(crmStore.tickets) + 1]>>))
        /\ everClosed' = everClosed \cup ClosedNow(crmStore')
        /\ UNCHANGED <<tCall, chunkerVars, embedVars, storeVars, fsRoot, fsFiles,
                       runVars, historyVars, queryVars>>

\* the arguments of update_ticket that are not undefined
Supplied(status, priority, assignee, tags) ==
    {"status" : x \in {status} \ {Undefined}}
        \cup {"priority" : x \in {priority} \ {Undefined}}
        \cup {"assigneeName" : x \in {assignee} \ {Undefined}}
        \cup {"tags" : x \in {tags} \ {NoValue}}

\* the look-up of the tools: by number when ticket_id is digits with or
\* without #, else by id; the place of the ticket, 0 for null
FindTicket(store, ticketId) ==
    IF numberMatch(ticketId) # <<>>
    THEN getTicketByNumber(store, parseInt(numberMatch(ticketId)))
    ELSE getTicket(store, ticketId)

\* executeUpdateTicket up to its first await: the ticket is looked up in the
\* store as it is now, and the tool yields with what the look-up gave
ExecuteUpdateTicket ==
    \E ticketId \in TicketIdArgs, status \in StatusArgs, priority \in PriorityArgs,
       assignee \in AssigneeArgs, tags \in TagArgs :
        \E at \in {FindTicket(crmStore, ticketId)} :
            /\ clock + AwaitingProvider <= MaxTicketCalls
            /\ tPending' = Append(tPending,
                  PendingTool("update_ticket",
                              IF at = 0 THEN "notFound" ELSE "updateTicket",
                              ticketId, at,
                              [status |-> status, priority |-> priority,
                               assigneeName |-> assignee, tags |-> tags],
                              NoNote,
                              Supplied(status, priority, assignee, tags),
                              <<>>, <<>>))
            /\ UNCHANGED <<crmStore, clock, tCall, everClosed, chunkerVars, embedVars,
                           storeVars, fsRoot, fsFiles, runVars, historyVars,
                           queryVars>>

\* executeUpdateTicket and executeAddTicketNote resumed after a look-up that
\* gave null: the tool reports the ticket as not found, whatever the store
\* holds by now
TicketNotFound ==
    \E i \in 1..Len(tPending) :
        /\ tPending[i].stage = "notFound"
        /\ Returned(tPending[i].op, tPending[i].ticketId, tPending[i].supplied,
                    FALSE, 0, <<>>, <<>>)
        /\ clock' = clock + 1
        /\ tPending' = Resumed(i)
        /\ UNCHANGED <<crmStore, everClosed, chunkerVars, embedVars, storeVars,
                       fsRoot, fsFiles, runVars, historyVars, queryVars>>

\* executeUpdateTicket: updateTicket on the ticket as the store holds it by
\* now; the tool awaits its result
UpdateTicket ==
    \E i \in 1..Len(tPending) :
        /\ tPending[i].stage = "updateTicket"
        /\ crmStore' = updateTicket(crmStore, tPending[i].at, tPending[i].data, clock)
        /\ clock' = clock + 1
        /\ tPending' = [tPending EXCEPT ![i] =
                           [@ EXCEPT !.stage = "return",
                                     !.before = <<crmStore.tickets[tPending[i].at]>>,
                                     !.after = <<crmStore'.tickets[tPending[i].at]>>]]
        /\ everClosed' = everClosed \cup ClosedNow(crmStore')
        /\ UNCHANGED <<tCall, chunkerVars, embedVars, storeVars, fsRoot, fsFiles,
                       runVars, historyVars, queryVars>>

\* executeCreateTicket and executeUpdateTicket: formatTicket of the ticket as
\* the store holds it by now; its throw is caught and reported as a failure
FormatTicket ==
    \E i \in 1..Len(tPending) :
        /\ tPending[i].stage = "return"
        /\ Returned(tPending[i].op, tPending[i].ticketId, tPending[i].supplied,
                    ~formatTicketThrows(crmStore.tickets[tPending[i].at]),
                    tPending[i].at, tPending[i].before, tPending[i].after)
        /\ tPending' = Resumed(i)
        /\ UNCHANGED <<crmStore, clock, everClosed, chunkerVars, embedVars, storeVars,
                       fsRoot, fsFiles, runVars, historyVars, queryVars>>

\* the arguments of add_ticket_note: the author and the flag may be left out
AuthorArgs == {Undefined}
InternalArgs == {Undefined}

\* executeAddTicketNote up to its first await: the ticket is looked up in the
\* store as it is now, and the tool yields with what the look-up gave; it
\* will pass author_name || 'Support Bot' and is_internal ?? true
ExecuteAddTicketNote ==
    \E ticketId \in TicketIdArgs, author \in AuthorArgs, internal \in InternalArgs :
        \E at \in {FindTicket(crmStore, ticketId)} :
            /\ clock + AwaitingProvider <= MaxTicketCalls
            /\ tPending' = Append(tPending,
                  PendingTool("add_ticket_note",
                              IF at = 0 THEN "notFound" ELSE "addTicketNote",
                              ticketId, at, NoData,
                              [authorName |-> IF author = Undefined
                                              THEN "Support Bot" ELSE author,
                               isInternal |-> internal = Undefined],
                              {}, <<>>, <<>>))
            /\ UNCHANGED <<crmStore, clock, tCall, everClosed, chunkerVars, embedVars,
                           storeVars, fsRoot, fsFiles, runVars, historyVars,
                           queryVars>>

\* executeAddTicketNote resumed after the look-up: addTicketNote on the
\* ticket as the store holds it by now; the tool awaits its result
AddTicketNote ==
    \E i \in 1..Len(tPending) :
        /\ tPending[i].stage = "addTicketNote"
        /\ crmStore' = addTicketNote(crmStore, tPending[i].at, tPending[i].note, clock)
        /\ clock' = clock + 1
        /\ tPending' = [tPending EXCEPT ![i] =
                           [@ EXCEPT !.stage = "noteReturn",
                                     !.before = <<crmStore.tickets[tPending[i].at]>>,
                                     !.after = <<crmStore'.tickets[tPending[i].at]>>]]
        /\ UNCHANGED <<tCall, everClosed, chunkerVars, embedVars, storeVars, fsRoot,
                       fsFiles, runVars, historyVars, queryVars>>

\* executeAddTicketNote resumed after addTicketNote: the tool returns its
\* success, for which it reads the note and the ticket number it holds
AddTicketNoteReturn ==
    \E i \in 1..Len(tPending) :
        /\ tPending[i].stage = "noteReturn"
        /\ Returned("add_ticket_note", tPending[i].ticketId, {}, TRUE, tPending[i].at,
                    tPending[i].before, tPending[i].after)
        /\ tPending' = Resumed(i)
        /\ UNCHANGED <<crmStore, clock, everClosed, chunkerVars, embedVars, storeVars,
                       fsRoot, fsFiles, runVars, historyVars, queryVars>>

\* the ticket tools on a new store
TicketInit ==
    /\ NoRun
    /\ fsRoot = "directory"
    /\ fsFiles = <<>>
    /\ collection = NoCollection
    /\ points = {}

TicketNext ==
    \/ ExecuteCreateTicket
    \/ ExecuteUpdateTicket
    \/ UpdateTicket
    \/ FormatTicket
    \/ TicketNotFound
    \/ ExecuteAddTicketNote
    \/ AddTicketNote
    \/ AddTicketNoteReturn

SpecTickets == TicketInit /\ [][TicketNext]_vars

\* ------------------------------------------------- claims C11 to C20

\* C20: for a text no longer than chunkSize, splitIntoChunks returns without
\* entering the loop exactly one chunk, the cleaned text: the text with every
\* CR LF made LF, every run of three or more LF made two, and trimmed. The
\* chunk has no white space at its ends and no run of three LF, and a CR LF
\* is left in it only where the text had CR CR LF, of which the one pass of
\* the replacement takes the second CR.
C20_ShortTextOneChunk ==
    (ckPc \in {"returned", "done"} /\ Len(text) <= chunkSize) =>
        /\ iter = 0
        /\ Len(chunks) = 1
        /\ chunks[1] = Trim(CollapseNewlines(ReplaceCRLF(text)))
        /\ Trim(chunks[1]) = chunks[1]
        /\ \A k \in 0..Len(chunks[1]) : ~MatchAt(chunks[1], <<LF, LF, LF>>, k)
        /\ (\E k \in 0..Len(chunks[1]) : MatchAt(chunks[1], <<CR, LF>>, k)) =>
              \E k \in 0..Len(text) : MatchAt(text, <<CR, CR, LF>>, k)
        /\ Len(chunks[1]) <= Len(text)

\* a short text with a CR LF between two of its letters has been returned as
\* one chunk, which trimming alone does not give
C20_Witness ==
    /\ ckPc = "returned"
    /\ Len(text) <= chunkSize
    /\ Len(chunks) = 1
    /\ chunks[1] # Trim(text)
    /\ \E k \in 1..Len(text) : MatchAt(text, <<"a", CR, LF, "a">>, k - 1)
    /\ \A k \in 0..Len(chunks[1]) : ~MatchAt(chunks[1], <<CR>>, k)

\* the name of the folder a file lies in, when that is not the root
ParentFolder(f) ==
    LET segs == SegmentsOf(f)
    IN  IF Len(segs) > 1 THEN segs[Len(segs) - 1] ELSE NoValue

\* C19 (as stated): the category of every chunk is the name of the folder its
\* file lies in, and a chunk of a file lying in the root has none.
C19_CategoryIsParentFolder ==
    \A i \in 1..Len(allChunks) :
        Chunk(allChunks[i]).metadata.category = ParentFolder(allChunks[i].file)

\* the step is one in which a call of the function is made: the call ends
\* at its first request, or awaits its next one
Makes(op) ==
    /\ qCount' = qCount + 1
    /\ \/ qPending' = qPending /\ qOp' = op
       \/ qPending' # qPending /\ qPending'[Len(qPending')].op = op

\* the step is one in which a call of the function returns or throws
Ends(op) ==
    /\ qOp' = op
    /\ \/ qCount' = qCount + 1 /\ qPending' = qPending
       \/ Len(qPending') < Len(qPending)

\* the step is one of the pending call at place i: the call goes on or ends
Takes(i) == \A j \in 1..Len(qPending') : qPending'[j] # qPending[i]

\* C16: collectionExists() returns at its one request, and never throws, a
\* boolean: true exactly when the request is answered and the store holds the
\* collection, false when the collection is absent and when the request
\* fails.
C16_ExistsIsBoolean ==
    [][Makes("collectionExists") =>
          /\ qPending' = qPending
          /\ qOutcome' = "returned"
          /\ qResult' \in BOOLEAN
          /\ Len(qCalls') = 1
          /\ qResult' = (qCalls'[1].answer = "ok" /\ collection.exists)]_vars

\* collectionExists() has answered false on a store that holds the collection
C16_Witness ==
    /\ qOp = "collectionExists"
    /\ collection.exists
    /\ qCalls[1].answer = "failed"
    /\ qResult = FALSE

\* C15 (as stated): getDocumentChunks(id) returns the empty list whenever no
\* stored point has the documentId and the store can be reached, whether or
\* not the collection has been created.
C15_UnknownIdIsEmpty ==
    (qOp = "getDocumentChunks" /\ qArgs.documentId \notin qBefore
        /\ qCalls[1].answer # "failed") =>
            qOutcome = "returned" /\ qResult = <<>>

\* the position in the joined text at which the content of item i starts
RECURSIVE ContentOffset(_, _)
ContentOffset(got, i) ==
    IF i = 1 THEN 0 ELSE ContentOffset(got, i - 1) + Len(got[i - 1].content) + 2

\* the items are those made from the points an answer gave, by ascending
\* chunkIndex
SortedFrom(got, gave) ==
    /\ Len(got) = Len(gave)
    /\ \A i \in 1..(Len(got) - 1) : got[i].chunkIndex <= got[i + 1].chunkIndex
    /\ \A i \in 1..Len(got) :
          Cardinality({j \in 1..Len(got) : got[j] = got[i]})
            = Cardinality({j \in 1..Len(gave) : SearchResultOf(gave[j], 1) = got[i]})

\* the text is the contents of the items in their order with a blank line
\* between two of them
JoinedFrom(full, got) ==
    /\ Len(full) = ContentOffset(got, Len(got)) + Len(got[Len(got)].content)
    /\ \A i \in 1..Len(got) :
          MatchAt(full, got[i].content, ContentOffset(got, i))
    /\ \A i \in 1..(Len(got) - 1) :
          MatchAt(full, <<LF, LF>>, ContentOffset(got, i) + Len(got[i].content))

\* C13: getDocumentChunks returns the chunks made from the points of the
\* answer sorted by ascending chunkIndex, whatever the order of the answer,
\* and the text executeGetInstruction returns is the contents of these chunks
\* in that order, joined with a blank line.
C13_SortedThenJoined ==
    /\ (qOp = "getDocumentChunks" /\ qOutcome = "returned") =>
          SortedFrom(qResult, qCalls[1].gave)
    /\ (qOp = "executeGetInstruction" /\ qResult.success) =>
          /\ SortedFrom(qChunks, qCalls[1].gave)
          /\ JoinedFrom(qResult.fullContent, qChunks)

\* executeGetInstruction has joined three or more chunks that the store gave
\* in another order than that of their chunkIndex
C13_Witness ==
    /\ qOp = "executeGetInstruction"
    /\ qResult.success
    /\ Len(qChunks) >= 3
    /\ \E i \in 1..(Len(qCalls[1].gave) - 1) :
          PointPayload(qCalls[1].gave[i].chunk).chunkIndex
            > PointPayload(qCalls[1].gave[i + 1].chunk).chunkIndex

\* C12 (as stated): getDocumentChunks(documentId) returns as many chunks as
\* the collection holds points of the documentId, however many these are.
C12_AllMatchingReturned ==
    (qOp = "getDocumentChunks" /\ qOutcome = "returned") =>
        Len(qResult)
          = Cardinality({p \in points :
                            PointPayload(p.chunk).documentId = qArgs.documentId})

\* C11 (as stated): a search with a category passed, the empty string
\* included, returns only results of that category, and a search without
\* category sends no filter.
C11_CategoryOnly ==
    (qOp = "search" /\ qOutcome = "returned") =>
        IF qArgs.category # NoValue
        THEN \A j \in 1..Len(qResult) : qResult[j].category = qArgs.category
        ELSE qCalls[2].filter = NoFilter

\* C11 (amended): a search with a non-empty category passed asks the store
\* for the points of that category and returns only results of that category;
\* a search with no category or with the empty string sends no filter, so no
\* category restriction applies.
C11_NonEmptyCategoryOnly ==
    (qOp = "search" /\ qOutcome = "returned") =>
        /\ Len(qResult) = Len(qCalls[2].gave)
        /\ \A j \in 1..Len(qResult) :
              qResult[j].category = PointPayload(qCalls[2].gave[j].chunk).category
        /\ IF qArgs.category \notin {NoValue, <<>>}
           THEN /\ qCalls[2].filter = [key |-> "category", value |-> qArgs.category]
                /\ \A j \in 1..Len(qResult) : qResult[j].category = qArgs.category
           ELSE qCalls[2].filter = [key |-> "none", value |-> NoValue]

\* a search for a category has returned a result while the store holds a
\* point of another category
C11_Witness ==
    /\ qOp = "search"
    /\ qOutcome = "returned"
    /\ qArgs.category = Dir_faq
    /\ Len(qResult) >= 1
    /\ \E p \in points : PointPayload(p.chunk).category # Dir_faq

\* the points listDocuments scanned: those its scroll requests gave, in order
RECURSIVE ScannedBy(_, _)
ScannedBy(calls, upto) ==
    IF upto < 2 THEN <<>> ELSE ScannedBy(calls, upto - 1) \o calls[upto].gave

\* C18: a listDocuments() that returns after a scan returns one entry for
\* each documentId among the points its scroll requests gave, with the
\* documentName, category and title of the first point of that documentId in
\* the order of the scan; when no documentId has come or gone since the call
\* was made, these are the points of the collection.  A call that meets the
\* store without the collection returns the empty list without a scan, as
\* does any call for which collectionExists() is false.
C18_FirstSeenOnce ==
    [][/\ (Makes("listDocuments") /\ ~collection.exists) =>
             /\ qPending' = qPending
             /\ qOutcome' = "returned"
             /\ qResult' = <<>>
             /\ Len(qCalls') = 1
       /\ (Ends("listDocuments") /\ qOutcome' = "returned") =>
             IF Len(qCalls') = 1 THEN qResult' = <<>>
             ELSE \E scanned \in {ScannedBy(qCalls', Len(qCalls'))} :
                     /\ qBefore' = StoredDocumentIds(points) => Range(scanned) = points
                     /\ {qResult'[i].documentId : i \in 1..Len(qResult')}
                           = {PointPayload(scanned[j].chunk).documentId :
                                 j \in 1..Len(scanned)}
                     /\ \A i, k \in 1..Len(qResult') :
                           qResult'[i].documentId = qResult'[k].documentId => i = k
                     /\ \A i \in 1..Len(qResult') : \E j \in 1..Len(scanned) :
                           /\ PointPayload(scanned[j].chunk).documentId
                                 = qResult'[i].documentId
                           /\ \A m \in 1..(j - 1) :
                                 PointPayload(scanned[m].chunk).documentId
                                     # qResult'[i].documentId
                           /\ qResult'[i].documentName
                                 = PointPayload(scanned[j].chunk).documentName
                           /\ qResult'[i].category
                                 = PointPayload(scanned[j].chunk).category
                           /\ qResult'[i].title
                                 = PointPayload(scanned[j].chunk).title]_vars

\* listDocuments() has returned on a store where two points of one documentId
\* differ in documentName
C18_Witness ==
    /\ qOp = "listDocuments"
    /\ qOutcome = "returned"
    /\ Len(qResult) >= 1
    /\ \E p, q \in points :
          /\ PointPayload(p.chunk).documentId = PointPayload(q.chunk).documentId
          /\ PointPayload(p.chunk).documentName # PointPayload(q.chunk).documentName

\* C14: a listDocuments() made when the call that ended last was a
\* deleteDocumentChunks(d) that returned has, when it returns, no entry for
\* d; and when its existence check was answered and no documentId has gone
\* since it was made, its entries are for exactly the other documentIds that
\* had a point before the deletion.
C14_DeletedNotListed ==
    [][(Ends("listDocuments") /\ qOutcome' = "returned"
          /\ qPrev'.op = "deleteDocumentChunks" /\ qPrev'.outcome = "returned") =>
              /\ \A i \in 1..Len(qResult') : qResult'[i].documentId # qPrev'.documentId
              /\ (qCalls'[1].answer = "ok" /\ qBefore' = StoredDocumentIds(points)) =>
                    {qResult'[i].documentId : i \in 1..Len(qResult')}
                        = qPrev'.before \ {qPrev'.documentId}]_vars

\* a document has been deleted from a store holding another one, and
\* listDocuments() has returned
C14_Witness ==
    /\ qOp = "listDocuments"
    /\ qOutcome = "returned"
    /\ qPrev.op = "deleteDocumentChunks"
    /\ qPrev.outcome = "returned"
    /\ qPrev.documentId \in qPrev.before
    /\ Len(qResult) >= 1

\* C17: no request of a createCollection() changes the stored points; a
\* call that meets the store with the collection leaves the collection as it
\* is and, when its existence check is answered, returns after that check; no
\* request of a call made when the call that ended last was a
\* createCollection() that returned changes the collection; and a call that
\* returns after more than the check has sent the create request and the two
\* index requests and leaves the collection with the configured dimension, the
\* cosine distance and the keyword indexes on documentId and category.
C17_CreateIdempotent ==
    [][/\ (\/ Makes("createCollection")
           \/ \E i \in 1..Len(qPending) :
                 qPending[i].op = "createCollection" /\ Takes(i)) =>
             points' = points
       /\ (Makes("createCollection") /\ collection.exists) =>
             /\ collection' = collection
             /\ IF qPending' = qPending
                THEN qOutcome' = "returned" /\ Len(qCalls') = 1
                ELSE qPending'[Len(qPending')].calls[1].answer = "failed"
       /\ (Makes("createCollection") /\ qOp = "createCollection"
             /\ qOutcome = "returned") => collection' = collection
       /\ \A i \in 1..Len(qPending) :
             (qPending[i].op = "createCollection" /\ Takes(i)
                /\ qPending[i].prev.op = "createCollection"
                /\ qPending[i].prev.outcome = "returned") => collection' = collection
       /\ (Ends("createCollection") /\ qOutcome' = "returned" /\ Len(qCalls') > 1) =>
             /\ [i \in 1..Len(qCalls') |-> qCalls'[i].request]
                   = <<"getCollections", "createCollection", "createPayloadIndex",
                       "createPayloadIndex">>
             /\ collection' = [exists |-> TRUE,
                               size |-> "CONFIG.knowledge.embeddingDimension",
                               distance |-> "Cosine",
                               indexes |-> {"documentId", "category"}]]_vars

\* createCollection() has made the collection and, called again, has
\* returned after the existence check
C17_Witness ==
    /\ qOp = "createCollection"
    /\ qOutcome = "returned"
    /\ Len(qCalls) = 1
    /\ qPrev.op = "createCollection"
    /\ qPrev.outcome = "returned"
    /\ qPrev.requests = 4
    /\ collection.indexes = {"documentId", "category"}

\* ------------------------------------------------------ claims C21 to C30

\* C21: for a cleaned text longer than chunkSize and 0 <= overlap < chunkSize/2,
\* the first window of the loop starts at 0 and every later window starts
\* overlap characters before the end of the window before it; and once
\* splitIntoChunks has returned, the last window ends at or past the end of
\* the cleaned text, and every character of the cleaned text that is not
\* white space lies in a window whose trimmed slice is one of the chunks.
C21_WindowsCover ==
    (Len(cleanText) > chunkSize /\ 2 * overlap < chunkSize /\ windows # <<>>) =>
        /\ windows[1].start = 0
        /\ \A i \in 2..Len(windows) : windows[i].start = windows[i - 1].end - overlap
        /\ ckPc \in {"returned", "done"} =>
              /\ windows[Len(windows)].end >= Len(cleanText)
              /\ \A p \in 1..Len(cleanText) :
                    ~IsSpace(cleanText[p]) =>
                        \E i \in 1..Len(windows) :
                            /\ windows[i].start < p
                            /\ p <= windows[i].end
                            /\ \E k \in 1..Len(chunks) :
                                  chunks[k] = Trim(Slice(cleanText, windows[i].start,
                                                         windows[i].end))

\* splitIntoChunks has returned after three or more windows with an overlap,
\* the first of which ends at a paragraph break before its raw end
C21_Witness ==
    /\ ckPc = "returned"
    /\ overlap >= 1
    /\ 2 * overlap < chunkSize
    /\ Len(windows) >= 3
    /\ windows[1].end < windows[1].start + chunkSize

\* C27 (as stated): with chunkSize > 0 and 0 <= overlap < chunkSize, every
\* iteration of the loop of splitIntoChunks leaves start greater than it was.
C27_CursorAdvances ==
    [][(ckPc = "loop" /\ iter' = iter + 1 /\ overlap < chunkSize) => start' > start]_vars

\* C28 (as stated): with 0 <= overlap < chunkSize, no chunk of splitIntoChunks
\* is longer than chunkSize characters.
C28_ChunkWithinSize ==
    overlap < chunkSize => \A k \in 1..Len(chunks) : Len(chunks[k]) <= chunkSize

\* C22 (as stated): findDocuments never throws because of the root: on a root
\* that is missing, is a file or may not be read, main gets the empty list
\* from it and leaves through the exit for no documents.
C22_RootNeverThrows ==
    (pc = "exited" /\ fsRoot # "directory" /\ documentPaths = <<>>
        /\ exitReason \in {"fatal", "no_documents"}) =>
            exitReason = "no_documents"

\* C24 (as stated): once createCollection has returned in a run, and
\* whenever no createCollection is under way, a collection that exists has
\* the keyword indexes on documentId and category.
C24_IndexesWithCollection ==
    (pc \notin {"index_documentId", "index_category"} /\ collection.exists) =>
        collection.indexes = {"documentId", "category"}

\* C23: executeSearchKnowledge never throws; its result has success = false
\* whenever the existence check, the query embedding or the search request
\* failed; and it has success = true with the message that nothing was found
\* exactly when all three were answered and the search returned no result.
C23_FailureIsNotEmpty ==
    qOp = "executeSearchKnowledge" =>
        /\ qOutcome = "returned"
        /\ (\E i \in 1..Len(qCalls) : qCalls[i].answer # "ok") => ~qResult.success
        /\ qResult.output = "nothing_found" <=>
              /\ qResult.success
              /\ Len(qCalls) = 3
              /\ \A i \in 1..3 : qCalls[i].answer = "ok"
              /\ qCalls[3].request = "search"
              /\ qCalls[3].gave = <<>>

\* executeSearchKnowledge has found the collection, has met the store without
\* it at its search request, and has reported the failure
C23_Witness ==
    /\ qOp = "executeSearchKnowledge"
    /\ Len(qCalls) = 3
    /\ qCalls[1].answer = "ok"
    /\ qCalls[3].answer = "missing"
    /\ ~qResult.success

\* the points the scroll requests of a scan gave so far, in order
RECURSIVE PagesGave(_, _)
PagesGave(calls, upto) ==
    IF upto < 2 THEN <<>> ELSE PagesGave(calls, upto - 1) \o calls[upto].gave

\* the scroll requests among the requests of a listDocuments: the first one
\* is sent without offset and every later one with the next_page_offset of
\* the answer before it, which is a cursor, and no page is asked for twice
CursorsPassed(calls) ==
    \A i \in 2..Len(calls) :
        /\ calls[i].offset = IF i = 2 THEN NoCursor ELSE calls[i - 1].next
        /\ i < Len(calls) => calls[i].answer = "ok" /\ calls[i].next # NoCursor
        /\ \A k \in 2..(i - 1) : calls[k].offset # calls[i].offset

\* C25: the loop of listDocuments passes the cursor of each answer as the
\* offset of its next request and goes on while the answer has one; a scan
\* that has returned ended with the first answer without cursor, has asked
\* for no page twice and has been given every point of the collection once;
\* and every scan comes to its end.
C25_ScanTerminatesComplete ==
    /\ [](/\ \A i \in 1..Len(qPending) :
                /\ CursorsPassed(qPending[i].calls)
                /\ Len(qPending[i].calls) > 1 =>
                      /\ qPending[i].calls[Len(qPending[i].calls)].answer = "ok"
                      /\ qPending[i].calls[Len(qPending[i].calls)].next # NoCursor
          /\ qOp = "listDocuments" =>
                /\ CursorsPassed(qCalls)
                /\ (qOutcome = "returned" /\ Len(qCalls) > 1) =>
                      /\ qCalls[Len(qCalls)].next = NoCursor
                      /\ \E scanned \in {PagesGave(qCalls, Len(qCalls))} :
                            /\ Len(scanned) = Cardinality(points)
                            /\ Range(scanned) = points)
    /\ (qPending # <<>> ~> qPending = <<>>)

\* a scan of more than three pages has returned
C25_Witness ==
    /\ qOp = "listDocuments"
    /\ qOutcome = "returned"
    /\ Len(qCalls) > 4
    /\ Len(qCalls[Len(qCalls)].gave) < ListPageSize

\* the points of the batches the run has upserted so far
UpsertedSoFar == Range(SubSeq(indexPoints, 1, Min(upsertI, Len(indexPoints))))

\* C26: nothing orders a listing or a search against a run of main in flight:
\* each request of the read is answered from the collection as the run has
\* left it by then.  A listing that meets the collection deleted returns the
\* empty list, and a scroll or search request that meets it deleted makes the
\* call throw.  In the first run a listing of one page returns the documents
\* of the batches upserted so far, a longer one returns documents of these
\* batches, those stored when it was called among them, and a search hits
\* among their points only, so that between two batches a document of the
\* run is found and another is not.
C26_ReadsMeetRunInFlight ==
    [][/\ (Makes("listDocuments") /\ ~collection.exists) =>
             qPending' = qPending /\ qOutcome' = "returned" /\ qResult' = <<>>
       /\ \A i \in 1..Len(qPending) :
             (Takes(i) /\ ~collection.exists) =>
                 Ends(qPending[i].op) /\ qOutcome' = "threw"
       /\ (runNo = 1 /\ Ends("listDocuments") /\ qOutcome' = "returned"
             /\ Len(qCalls') > 1) =>
             \E listed \in {{qResult'[i].documentId : i \in 1..Len(qResult')}} :
                 /\ listed \subseteq StoredDocumentIds(UpsertedSoFar)
                 /\ qBefore' \subseteq listed
                 /\ Len(qCalls') = 2 => listed = StoredDocumentIds(UpsertedSoFar)
       /\ (runNo = 1 /\ Ends("search") /\ qOutcome' = "returned") =>
             Range(qCalls'[2].gave) \subseteq UpsertedSoFar]_vars

\* a listing has returned between the two upsert batches of a run on two
\* documents, with one of them
C26_Witness ==
    /\ pc = "upsert"
    /\ 0 < upsertI
    /\ upsertI < Len(indexPoints)
    /\ Len(documentPaths) = 2
    /\ failedDocs = {}
    /\ qOp = "listDocuments"
    /\ qOutcome = "returned"
    /\ Len(qResult) = 1

\* C29 (as stated): an update_ticket call that found its ticket has changed,
\* besides updatedAt, only the fields it supplied, and every ticket of the
\* store has one of the five statuses and one of the four priorities.
C29_OnlySuppliedFieldsChange ==
    /\ (tCall.op = "update_ticket" /\ tCall.at > 0) =>
          \A f \in UpdateFields \ tCall.supplied :
              tCall.after[1][f] = tCall.before[1][f]
    /\ \A k \in 1..Len(crmStore.tickets) :
          /\ crmStore.tickets[k].status \in TicketStatuses
          /\ crmStore.tickets[k].priority \in TicketPriorities

\* C30 (as stated): an update that takes a ticket from new, open or pending
\* to resolved or closed leaves it with a closedAt, and a ticket that has
\* never been resolved or closed has none.
C30_ClosedAtWhenClosed ==
    /\ (/\ tCall.op = "update_ticket"
        /\ tCall.at > 0
        /\ tCall.before[1].status \in {"new", "open", "pending"}
        /\ tCall.after[1].status \in {"resolved", "closed"}) =>
            tCall.after[1].closedAt # 0
    /\ \A k \in 1..Len(crmStore.tickets) :
          crmStore.tickets[k].id \notin everClosed => crmStore.tickets[k].closedAt = 0

====
